---- MODULE Spec2Model ----
(***************************************************************************)
(* emberdb storage core: the time-chunked in-memory index, the write-ahead *)
(* log, chunk persistence, recovery and the read path of                   *)
(* src/src/storage/{mod,chunk,persistence}.rs and the batch ingest of      *)
(* src/src/timeseries/query.rs.                                            *)
(*                                                                         *)
(* Threads run the public operations concurrently.  A step of an operation *)
(* is what the code does while it holds one lock (the chunk-map RwLock or  *)
(* the WAL mutex) or performs one file operation.  File operations may     *)
(* fail; the process may crash once and be restarted.                      *)
(***************************************************************************)
EXTENDS Integers, Sequences, FiniteSets, TLC

\* ------------------------------------------------------------------ bounds

\* Config::chunk_duration in seconds (3600 in the tests); any positive value.
chunk_duration == 2
\* Timestamps range over -1 .. MaxTs.
MaxTs == 2
\* Records handed to the engine over a whole run.
MaxRecords == 2
\* Records in one store_records call.
MaxBatch == 2
\* TimeChunk::is_full: stands for the 10_000 of record_count > 10_000.
FullRecordCount == 1
\* TimeChunk::is_full: stands for the 1_000_000 of get_size() > 1_000_000.
FullSizeBytes == 3

\* PersistenceManager::append_records: stands for the 100 of
\* records.len() > 100, the batch size from which one write_all is used.
FastPathLen == 2
\* Records appended between two truncations when the log's own operations
\* are exercised.
MaxWalLen == 3

Threads == {1, 2}
\* Metric names, one a proper prefix of the other, and their characters.
Metrics == {"a", "ab"}
chars == [a |-> <<"a">>, ab |-> <<"a", "b">>]
Timestamps == (0 - 1) .. MaxTs
\* chunk_id arguments of direct insert_batch calls: any i64, aligned or not.
BatchChunkIds == (0 - chunk_duration) .. chunk_duration

\* ----------------------------------------------------------------- records

\* Record::resource_type of the records the callers hand in.
ResourceTypes == {"Observation"}

\* Record: `value` also tells two records of one metric and timestamp apart.
Record(ts, m, v) ==
    [timestamp |-> ts, metric_name |-> m, value |-> v,
     resource_type |-> CHOOSE rt \in ResourceTypes : TRUE]

\* Rust's % on i64: the remainder of division truncating toward zero.
rem(a, b) == IF a >= 0 THEN a % b ELSE 0 - ((0 - a) % b)

\* StorageEngine::get_chunk_id
get_chunk_id(timestamp) == timestamp - rem(timestamp, chunk_duration)

\* chunk_id_for_timestamp (free function used by QueryEngine::store_records)
chunk_id_for_timestamp(timestamp, duration) == timestamp - rem(timestamp, duration)

\* ------------------------------------------------------------------ chunks

NoRecords == [m \in Metrics |-> <<>>]

\* TimeChunk::resource_metrics, the resource_type -> metric names index that
\* StorageEngine reads: empty in a new chunk.
NoResourceMetrics == << >>

\* TimeChunk::new.  `records` maps a metric to its Vec; the empty sequence is
\* an absent key (the code only creates a key when it pushes a record).
TimeChunkNew(start_time, end_time) ==
    [start_time |-> start_time, end_time |-> end_time, records |-> NoRecords,
     resource_metrics |-> NoResourceMetrics, record_count |-> 0,
     compression_state |-> "Uncompressed", dirty |-> TRUE]

\* TimeChunk::can_accept
can_accept(chunk, timestamp) ==
    timestamp >= chunk.start_time /\ timestamp < chunk.end_time

\* An append that pushes the record and leaves metadata.record_count alone.
append_NoCount(chunk, record) ==
    [chunk EXCEPT !.records[record.metric_name] = Append(@, record),
                  !.dirty = TRUE]

\* TimeChunk::append, the Ok branch (the caller tests can_accept)
append(chunk, record) ==
    [chunk EXCEPT !.records[record.metric_name] = Append(@, record),
                  !.record_count = @ + 1,
                  !.dirty = TRUE]

\* TimeChunk::get_size with every key and every Record taken as one byte
get_size(chunk) ==
    LET RECURSIVE Sum(_)
        Sum(S) == IF S = {} THEN 0
                  ELSE LET m == CHOOSE x \in S : TRUE
                       IN (IF chunk.records[m] = <<>> THEN 0
                           ELSE 1 + Len(chunk.records[m])) + Sum(S \ {m})
    IN Sum(Metrics)

\* TimeChunk::is_full
is_full(chunk) ==
    chunk.record_count > FullRecordCount \/ get_size(chunk) > FullSizeBytes

\* TimeChunk::mark_clean
mark_clean(chunk) == [chunk EXCEPT !.dirty = FALSE]

\* TimeChunk::compress, the loop over one metric's Vec: every timestamp is
\* replaced by its difference to the timestamp before it (0 before the
\* first).
delta_encode(records) ==
    [i \in 1 .. Len(records) |->
        [records[i] EXCEPT !.timestamp =
            @ - (IF i = 1 THEN 0 ELSE records[i - 1].timestamp)]]

\* TimeChunk::compress: the timestamps delta-encoded in place, the values
\* left as they are, the state Compressed, the chunk dirty.
compress(chunk) ==
    [chunk EXCEPT !.records = [m \in Metrics |-> delta_encode(chunk.records[m])],
                  !.compression_state = "Compressed",
                  !.dirty = TRUE]

\* TimeChunk::validate: the window is not empty, every metric's records are
\* in time order and inside the window.
validate(chunk) ==
    /\ chunk.start_time < chunk.end_time
    /\ \A m \in Metrics :
          /\ \A i \in 2 .. Len(chunk.records[m]) :
                chunk.records[m][i].timestamp >= chunk.records[m][i - 1].timestamp
          /\ \A i \in 1 .. Len(chunk.records[m]) :
                can_accept(chunk, chunk.records[m][i].timestamp)

\* serde_json::to_vec(chunk): `dirty` is #[serde(skip)] and is not written.
Serialize(chunk) ==
    [start_time |-> chunk.start_time, end_time |-> chunk.end_time,
     records |-> chunk.records, resource_metrics |-> chunk.resource_metrics,
     record_count |-> chunk.record_count,
     compression_state |-> chunk.compression_state]

\* serde_json::from_slice: `dirty` takes bool's default.
Deserialize(file) ==
    [start_time |-> file.start_time, end_time |-> file.end_time,
     records |-> file.records, resource_metrics |-> file.resource_metrics,
     record_count |-> file.record_count,
     compression_state |-> file.compression_state, dirty |-> FALSE]

\* The records a chunk (or a chunk file) holds.
ChunkRecords(chunk) ==
    UNION {{chunk.records[m][i] : i \in 1 .. Len(chunk.records[m])} : m \in Metrics}

\* ------------------------------------------------------------------ engine

\* StorageEngine::persistence_enabled, an AtomicBool.
VARIABLE persistence_enabled

\* insert_internal under the chunk-map write lock: get_chunk_id, create the
\* chunk if needed, append, is_full and the snapshot to persist.
insert_locked(chs, record) ==
    LET chunk_id == get_chunk_id(record.timestamp)
        chs1 == IF chunk_id \in DOMAIN chs THEN chs
                ELSE chs @@ (chunk_id :> TimeChunkNew(chunk_id, chunk_id + chunk_duration))
    IN IF ~can_accept(chs1[chunk_id], record.timestamp)
       THEN [chunks |-> chs1, res |-> "ChunkError", persist |-> FALSE, chunk_id |-> chunk_id]
       ELSE LET chunk == append(chs1[chunk_id], record)
            IN [chunks |-> [chs1 EXCEPT ![chunk_id] = chunk], res |-> "Ok",
                persist |-> is_full(chunk) /\ persistence_enabled,
                chunk_id |-> chunk_id]

\* The append loop of insert_batch: stops at the first record the chunk
\* rejects and keeps the records appended before it.
RECURSIVE append_all(_, _)
append_all(chunk, records) ==
    IF records = <<>> THEN [chunk |-> chunk, res |-> "Ok"]
    ELSE IF ~can_accept(chunk, Head(records).timestamp)
         THEN [chunk |-> chunk, res |-> "ChunkError"]
         ELSE append_all(append(chunk, Head(records)), Tail(records))

\* insert_batch under the chunk-map write lock (records is not empty).
insert_batch_locked(chs, chunk_id, records) ==
    LET chs1 == IF chunk_id \in DOMAIN chs THEN chs
                ELSE chs @@ (chunk_id :> TimeChunkNew(chunk_id, chunk_id + chunk_duration))
        done == append_all(chs1[chunk_id], records)
    IN [chunks |-> [chs1 EXCEPT ![chunk_id] = done.chunk], res |-> done.res,
        persist |-> done.res = "Ok" /\ is_full(done.chunk) /\ persistence_enabled,
        chunk_id |-> chunk_id]

\* PersistenceManager::save_chunk: the file is named after chunk.start_time
\* and replaced whole by the rename.
save_chunk(files, chunk) == 
    IF chunk.start_time \in DOMAIN files
    THEN [files EXCEPT ![chunk.start_time] = Serialize(chunk)]
    ELSE files @@ (chunk.start_time :> Serialize(chunk))

\* --------------------------------------------------------------------- WAL

\* f64 values serde_json cannot write as a number: NaN and the infinities.
\* Value 0 stands for them; the positive values stand for finite floats.
NonFinite == {0}

\* serde_json::to_vec(record): the JSON text of a Record.  The number is a
\* sequence of one value; a non-finite f64 is written as `null`, the empty
\* sequence.
to_vec(record) ==
    [timestamp |-> record.timestamp, metric_name |-> record.metric_name,
     value |-> IF record.value \in NonFinite THEN <<>> ELSE <<record.value>>,
     resource_type |-> record.resource_type]

\* serde_json::from_slice::<Record>: `null` is not an f64.
from_slice(json) ==
    IF json.value = <<>> THEN [res |-> "Err", record |-> <<>>]
    ELSE [res |-> "Ok",
          record |-> <<[timestamp |-> json.timestamp, metric_name |-> json.metric_name,
                        value |-> json.value[1], resource_type |-> json.resource_type]>>]

\* A frame of records.wal: the 4-byte length and the payload of one record.
\* torn = "hdr": only a part of the length was written; torn = "payload":
\* the length and a part of the payload were written; torn = "len": the
\* length alone, written by the first write_all of append_record; torn =
\* "data": the payload alone, written by the second write_all after other
\* bytes had followed the length.
Frame(record, torn) == [payload |-> to_vec(record), torn |-> torn]

\* The loop of WriteAheadLog::replay from frame i on.  A short length at the
\* end of the file is the clean end (UnexpectedEof, break).  A short payload
\* at the end fails the second read_exact; a torn frame followed by further
\* frames makes the reader take the bytes of the next frame for the payload
\* or the length, which fails to decode; a payload that does not
\* deserialize fails too: all are Err, returned by `?`.
RECURSIVE replay_from(_, _, _)
replay_from(log, i, records) ==
    IF i > Len(log) THEN [res |-> "Ok", records |-> records]
    ELSE IF log[i].torn = "hdr" /\ i = Len(log) THEN [res |-> "Ok", records |-> records]
    ELSE IF log[i].torn # "none" THEN [res |-> "Err", records |-> <<>>]
    ELSE LET got == from_slice(log[i].payload)
         IN IF got.res # "Ok" THEN [res |-> "Err", records |-> <<>>]
            ELSE replay_from(log, i + 1, records \o got.record)

\* WriteAheadLog::replay
replay(log) == replay_from(log, 1, <<>>)

\* ------------------------------------------------------------------- state

VARIABLES
    chunks,     \* StorageEngine::chunks: chunk_id -> TimeChunk
    disk,       \* <base>/chunks/<id>.chunk: id -> serialized TimeChunk
    wal,        \* <base>/wal/records.wal: the sequence of frames
    pc,         \* per thread: the step its operation is at
    loc,        \* per thread: the locals of its operation
    phase,      \* "up", "down", "recovering", "recovered", "failed"
    todo,       \* the WAL records recover() has still to replay
    restarted,  \* the process has crashed and was started again
    used,       \* records handed to the engine so far
    returned,   \* history: the calls that returned, [op, rec, res]
    walFailed,  \* history: records whose WAL append reported an error
    inflight,   \* history: records of the calls the crash interrupted
    io_faults,  \* environment: the file operations that may report errors,
                \* a subset of {"read", "write"}
    base_path_empty, \* PersistenceManager::base_path is the empty path
    appended,   \* history: the records of the successful WAL appends, in order
    unloadable, \* history: the chunk files load_chunk failed on at startup
    broken,     \* <base>/chunks/<id>.chunk files whose content is not the whole
                \* JSON of a chunk: id -> size
    tmp,        \* <base>/chunks/<id>.tmp: id -> [size, data]
    fd,         \* per thread: the file save_chunk has open
    unsaved,    \* history: the snapshots the last failed flush_all of this run
                \* of the process had not saved
    debug_mode, \* StorageEngine::debug_mode: the DebugSettings behind the RwLock
    debug_lock, \* the thread that holds debug_mode's write lock, or 0
    held,       \* per thread: the locks it holds of chunks (read or write),
                \* WalManager::log_file and PersistenceManager::active_records
    calls,      \* the calls started so far, counted where the locks are followed
    log_file,   \* WriteAheadLog::log_file: the file the handle behind the mutex
                \* refers to, "records.wal" or "replaced" (a file that a rename
                \* has replaced at that path)
    removed     \* history: the chunks cleanup_old_chunks removed, [id, used,
                \* quiet]: `used` at that time, and whether no other call was
                \* running

\* The variables the engine's write and flush paths leave alone.
debug == <<persistence_enabled, debug_mode, debug_lock>>

locks == <<held, calls, log_file, removed>>

aux == <<debug, locks, base_path_empty, appended, unloadable, tmp, fd, unsaved>>

vars == <<chunks, disk, wal, pc, loc, phase, todo, restarted, used, returned,
          walFailed, inflight, io_faults, broken, aux>>

NoChunks == [id \in {} |-> 0]

\* No file open.
NoFd == [at |-> "none", id |-> 0, written |-> FALSE]

\* A directory without the entry `id`.
without(files, id) == [x \in DOMAIN files \ {id} |-> files[x]]

\* The locals of an operation: its records, the records still to append to
\* the WAL (wq), the chunk groups still to insert (gq), the chunk snapshots
\* taken for saving (snaps) and those not yet saved (left).  For flush_all,
\* two notes of history: whether no writer was running when it took its
\* snapshot (quiet), and how many records had been handed in by then (since).
Idle == [op |-> "none", recs |-> <<>>, wq |-> <<>>, gq |-> <<>>,
         snaps |-> NoChunks, left |-> {}, quiet |-> FALSE, since |-> 0, cutoff |-> 0,
         args |-> <<>>, steps |-> <<>>]

\* DebugSettings' batch_size in StorageEngine::new.
DefaultBatchSize == 500

\* StorageEngine::new: the DebugSettings it starts with.
NewDebugSettings ==
    [memory_mode |-> FALSE, disable_wal |-> FALSE, batch_size |-> DefaultBatchSize]

\* StorageEngine::new: persistence enabled, the default debug settings, no
\* lock held, no call started.
NewDebug ==
    /\ persistence_enabled = TRUE
    /\ debug_mode = NewDebugSettings
    /\ debug_lock = 0
    /\ held = [t \in Threads |-> {}]
    /\ calls = 0
    /\ log_file = "records.wal"
    /\ removed = {}

Init ==
    /\ chunks = NoChunks
    /\ disk = NoChunks
    /\ wal = <<>>
    /\ pc = [t \in Threads |-> "idle"]
    /\ loc = [t \in Threads |-> Idle]
    /\ phase = "up"
    /\ todo = <<>>
    /\ restarted = FALSE
    /\ used = 0
    /\ returned = {}
    /\ walFailed = {}
    /\ inflight = {}
    /\ io_faults = {"read", "write"}
    /\ base_path_empty = FALSE
    /\ appended = <<>>
    /\ unloadable = {}
    /\ unsaved = {}
    /\ NewDebug
    /\ broken = NoChunks
    /\ tmp = NoChunks
    /\ fd = [t \in Threads |-> NoFd]

\* The results a write to a file (create, write, sync, rename, truncate) may
\* have: Ok (TRUE) or an error (FALSE).
IoResults == IF "write" \in io_faults THEN BOOLEAN ELSE {TRUE}

Serving == phase \in {"up", "recovered"}

SeqToSet(s) == {s[i] : i \in 1 .. Len(s)}

\* A call returns: the thread is idle again and the history records it.
Return(t, op, recs, res) ==
    /\ pc' = [pc EXCEPT ![t] = "idle"]
    /\ loc' = [loc EXCEPT ![t] = Idle]
    /\ returned' = returned \cup {[op |-> op, rec |-> r, res |-> res] : r \in SeqToSet(recs)}

\* What a failed WAL append may leave in the file: nothing, a part of the
\* length, the length and a part of the payload, or the whole frame (the
\* error came from sync_data).
Leftovers(record) ==
    {<<>>, <<Frame(record, "hdr")>>, <<Frame(record, "payload")>>, <<Frame(record, "none")>>}

\* ------------------------------------------------------------------ insert

\* A variant of WalAppendFailed that drops the error of append_record and
\* goes on to the chunk map.
WalAppendFailed_ErrorDropped(t, record) ==
    /\ \E left \in Leftovers(record) : wal' = wal \o left
    /\ walFailed' = walFailed \cup {[op |-> "insert", rec |-> record]}
    /\ pc' = [pc EXCEPT ![t] = "ins_chunk"]
    /\ loc' = [loc EXCEPT ![t] = [Idle EXCEPT !.op = "insert", !.recs = <<record>>]]
    /\ UNCHANGED returned

\* insert_internal: the `?` on append_record's error returns it, before the
\* chunk map is touched.
WalAppendFailed(t, record) ==
    /\ \E left \in Leftovers(record) : wal' = wal \o left
    /\ walFailed' = walFailed \cup {[op |-> "insert", rec |-> record]}
    /\ Return(t, "insert", <<record>>, "PersistenceError")

\* WriteAheadLog::append_record returns Ok: write_all through the handle behind
\* the mutex.  The frame reaches records.wal when the handle refers to it,
\* and a file with no name otherwise.
write_all(log, frame) == IF log_file = "records.wal" THEN Append(log, frame) ELSE log

\* StorageEngine::insert, first step: with persistence enabled,
\* PersistenceManager::append_record under the WAL mutex; `?` returns its
\* error.
InsertWal(t) ==
    /\ Serving /\ pc[t] = "idle" /\ used < MaxRecords
    /\ \E ts \in Timestamps, m \in Metrics,
          ok \in IF persistence_enabled THEN IoResults ELSE {TRUE} :
         LET record == Record(ts, m, used + 1)
         IN /\ used' = used + 1
            /\ phase' = "up"
            /\ IF ok
               THEN /\ wal' = IF persistence_enabled
                              THEN write_all(wal, Frame(record, "none")) ELSE wal
                    /\ pc' = [pc EXCEPT ![t] = "ins_chunk"]
                    /\ loc' = [loc EXCEPT ![t] = [Idle EXCEPT !.op = "insert", !.recs = <<record>>]]
                    /\ UNCHANGED <<returned, walFailed>>
               ELSE WalAppendFailed(t, record)
    /\ UNCHANGED <<chunks, disk, todo, restarted, inflight, io_faults, broken, aux>>

\* insert_internal, second step, under the chunk-map write lock.
InsertChunk(t) ==
    /\ pc[t] = "ins_chunk"
    /\ LET record == loc[t].recs[1]
           out == insert_locked(chunks, record)
       IN /\ chunks' = out.chunks
          /\ IF out.res # "Ok" THEN Return(t, "insert", loc[t].recs, out.res)
             ELSE IF out.persist
             THEN /\ pc' = [pc EXCEPT ![t] = "save"]
                  /\ loc' = [loc EXCEPT ![t].snaps = (out.chunk_id :> out.chunks[out.chunk_id]),
                                        ![t].left = {out.chunk_id}]
                  /\ UNCHANGED returned
             ELSE Return(t, "insert", loc[t].recs, "Ok")
    /\ UNCHANGED <<disk, wal, phase, todo, restarted, used, walFailed, inflight, io_faults, broken, aux>>

\* insert_internal / insert_batch, the on-full persist outside the lock:
\* save_chunk, whose error `?` returns, then mark_chunk_durable (which only
\* prunes the active-records table and cannot fail).
PersistFullChunk(t) ==
    /\ pc[t] = "save"
    /\ \E id \in loc[t].left, ok \in IoResults :
         IF ok
         THEN /\ disk' = save_chunk(disk, loc[t].snaps[id])
              /\ broken' = without(broken, id)
              /\ pc' = [pc EXCEPT ![t] = "clean"]
              /\ loc' = [loc EXCEPT ![t].left = {}]
              /\ UNCHANGED returned
         ELSE /\ UNCHANGED <<disk, broken>>
              /\ Return(t, loc[t].op, loc[t].recs, "PersistenceError")
    /\ UNCHANGED <<chunks, wal, phase, todo, restarted, used, walFailed, inflight, io_faults, aux>>

\* mark_clean of every snapshotted chunk still in the map.
clean_all(chs, ids) ==
    [id \in DOMAIN chs |-> IF id \in ids THEN mark_clean(chs[id]) ELSE chs[id]]

\* insert_internal / insert_batch, last step: mark_clean under a second
\* write lock, then Ok.  store_records goes on with its next chunk group.
MarkChunkClean(t) ==
    /\ pc[t] = "clean"
    /\ chunks' = clean_all(chunks, DOMAIN loc[t].snaps)
    /\ IF loc[t].op = "store_records" /\ loc[t].gq # <<>>
       THEN /\ pc' = [pc EXCEPT ![t] = "sr_batch"]
            /\ loc' = [loc EXCEPT ![t].snaps = NoChunks]
            /\ UNCHANGED returned
       ELSE Return(t, loc[t].op, loc[t].recs, "Ok")
    /\ UNCHANGED <<disk, wal, phase, todo, restarted, used, walFailed, inflight, io_faults, broken, aux>>

\* --------------------------------------------------------------- flush_all

\* flush_all, first step: the dirty chunks cloned under the read lock.
FlushSnapshot(t) ==
    /\ Serving /\ pc[t] = "idle" /\ persistence_enabled
    /\ LET dirty == {id \in DOMAIN chunks : chunks[id].dirty}
       IN /\ pc' = [pc EXCEPT ![t] = IF dirty = {} THEN "fl_trunc" ELSE "fl_save"]
          /\ loc' = [loc EXCEPT ![t] = [Idle EXCEPT !.op = "flush_all",
                                                    !.snaps = [id \in dirty |-> chunks[id]],
                                                    !.left = dirty,
                                                    !.quiet = \A u \in Threads :
                                                                 loc[u].op \in {"none", "flush_all"},
                                                    !.since = used]]
    /\ phase' = "up"
    /\ UNCHANGED <<chunks, disk, wal, todo, restarted, used, returned, walFailed, inflight, io_faults, broken, aux>>

\* A flush_all that goes on to mark_clean and truncate_wal after the error.
FlushSaveFailed_GoesOn(t) ==
    /\ unsaved' = loc[t].left
    /\ chunks' = [id \in DOMAIN chunks |->
                    IF id \in DOMAIN loc[t].snaps THEN mark_clean(chunks[id]) ELSE chunks[id]]
    /\ wal' = <<>>
    /\ UNCHANGED <<disk, broken>>
    /\ Return(t, "flush_all", <<>>, "PersistenceError")

\* flush_all, save_chunk reports an error: return Err(e) out of the save loop,
\* before the mark_clean block and before truncate_wal.
FlushSaveFailed(t) ==
    /\ unsaved' = loc[t].left
    /\ UNCHANGED <<chunks, disk, wal, broken>>
    /\ Return(t, "flush_all", <<>>, "PersistenceError")

\* flush_all, the save loop, one snapshot a step, no lock held.
FlushSave(t) ==
    /\ pc[t] = "fl_save"
    /\ \E id \in loc[t].left, ok \in IoResults :
         IF ok
         THEN /\ disk' = save_chunk(disk, loc[t].snaps[id])
              /\ broken' = without(broken, id)
              /\ pc' = [pc EXCEPT ![t] = IF loc[t].left = {id} THEN "fl_clean" ELSE "fl_save"]
              /\ loc' = [loc EXCEPT ![t].left = @ \ {id}]
              /\ UNCHANGED <<chunks, wal, returned, unsaved>>
         ELSE FlushSaveFailed(t)
    /\ UNCHANGED <<phase, todo, restarted, used, walFailed, inflight, io_faults,
                   debug, locks, base_path_empty, appended, unloadable, tmp, fd>>

\* flush_all: mark_clean of the flushed chunks under the write lock.
FlushClean(t) ==
    /\ pc[t] = "fl_clean"
    /\ chunks' = clean_all(chunks, DOMAIN loc[t].snaps)
    /\ pc' = [pc EXCEPT ![t] = "fl_trunc"]
    /\ UNCHANGED <<disk, wal, loc, phase, todo, restarted, used, returned, walFailed, inflight, io_faults, broken, aux>>

\* flush_all, last step: PersistenceManager::truncate_wal replaces
\* records.wal by an empty file.
FlushTruncate(t) ==
    /\ pc[t] = "fl_trunc"
    /\ \E ok \in IoResults :
         /\ wal' = IF ok THEN <<>> ELSE wal
         /\ IF ok /\ loc[t].op = "cleanup_old_chunks"
            THEN /\ pc' = [pc EXCEPT ![t] = "retain"]
                 /\ UNCHANGED <<loc, returned>>
            ELSE Return(t, "flush_all", <<>>, IF ok THEN "Ok" ELSE "PersistenceError")
    /\ UNCHANGED <<chunks, disk, phase, todo, restarted, used, walFailed, inflight, io_faults, broken, aux>>

\* truncate_wal step by step, first part: File::create(records.wal.new) and
\* fs::rename over records.wal, with no lock held.  The handle behind the
\* mutex still refers to the file the rename replaced.
TruncateRename(t) ==
    /\ pc[t] = "fl_trunc"
    /\ \E ok \in IoResults :
         IF ok
         THEN /\ wal' = <<>>
              /\ log_file' = "replaced"
              /\ pc' = [pc EXCEPT ![t] = "fl_reopen"]
              /\ UNCHANGED <<loc, returned>>
         ELSE /\ UNCHANGED <<wal, log_file>>
              /\ Return(t, "flush_all", <<>>, "PersistenceError")
    /\ UNCHANGED <<chunks, disk, phase, todo, restarted, used, walFailed, inflight, io_faults,
                   broken, debug, held, calls, removed, base_path_empty, appended,
                   unloadable, tmp, fd, unsaved>>

\* truncate_wal, second part: open records.wal, lock log_file and put the new
\* handle in its place; flush_all returns Ok (cleanup_old_chunks goes on).
TruncateReopen(t) ==
    /\ pc[t] = "fl_reopen"
    /\ log_file' = "records.wal"
    /\ IF loc[t].op = "cleanup_old_chunks"
       THEN /\ pc' = [pc EXCEPT ![t] = "retain"]
            /\ UNCHANGED <<loc, returned>>
       ELSE Return(t, "flush_all", <<>>, "Ok")
    /\ UNCHANGED <<chunks, disk, wal, phase, todo, restarted, used, walFailed, inflight,
                   io_faults, broken, debug, held, calls, removed, base_path_empty,
                   appended, unloadable, tmp, fd, unsaved>>

\* ------------------------------------------------------ cleanup_old_chunks

\* The values of now - retention the callers' clocks and retentions give.
Cutoffs == (0 - 1) .. (MaxTs + 1)

\* cleanup_old_chunks, up to the snapshot of its flush_all()?: the cutoff is
\* computed first; with persistence enabled flush_all clones the dirty chunks
\* under the read lock, without it flush_all returns Ok at once.
CleanupStart(t) ==
    /\ Serving /\ pc[t] = "idle"
    /\ \E cutoff \in Cutoffs :
         LET dirty == IF persistence_enabled
                      THEN {id \in DOMAIN chunks : chunks[id].dirty} ELSE {}
         IN /\ pc' = [pc EXCEPT ![t] = IF ~persistence_enabled THEN "retain"
                                       ELSE IF dirty = {} THEN "fl_trunc" ELSE "fl_save"]
            /\ loc' = [loc EXCEPT ![t] = [Idle EXCEPT !.op = "cleanup_old_chunks",
                                                      !.cutoff = cutoff,
                                                      !.snaps = [id \in dirty |-> chunks[id]],
                                                      !.left = dirty]]
    /\ phase' = "up"
    /\ UNCHANGED <<chunks, disk, wal, todo, restarted, used, returned, walFailed, inflight, io_faults, broken, aux>>

\* cleanup_old_chunks after flush_all returned Ok: chunks.retain under the
\* write lock keeps the chunks whose key is not below the cutoff.
CleanupRetain(t) ==
    /\ pc[t] = "retain"
    /\ chunks' = [id \in {k \in DOMAIN chunks : k >= loc[t].cutoff} |-> chunks[id]]
    /\ removed' = removed \cup
                     {[id |-> k, used |-> used,
                       quiet |-> \A u \in Threads \ {t} : pc[u] = "idle"] :
                          k \in {k \in DOMAIN chunks : k < loc[t].cutoff}}
    /\ Return(t, "cleanup_old_chunks", <<>>, "Ok")
    /\ UNCHANGED <<disk, wal, phase, todo, restarted, used, walFailed, inflight, io_faults,
                   broken, debug, held, calls, log_file, base_path_empty, appended,
                   unloadable, tmp, fd, unsaved>>

\* ---------------------------------------------------------------- compress

\* TimeChunk::compress called on a chunk of the map that has not been
\* compressed yet.
CompressChunk(t) ==
    /\ Serving /\ pc[t] = "idle"
    /\ \E id \in DOMAIN chunks :
         /\ chunks[id].compression_state = "Uncompressed"
         /\ chunks' = [chunks EXCEPT ![id] = compress(@)]
    /\ phase' = "up"
    /\ UNCHANGED <<disk, wal, pc, loc, todo, restarted, used, returned, walFailed,
                   inflight, io_faults, broken, aux>>

\* ------------------------------------------------------ set_debug_settings

\* The batch_size arguments: None (the empty tuple) or Some(size).
BatchSizeArgs == {<<>>, <<MaxBatch>>}

\* A set_debug_settings that takes no lock on debug_mode.
DebugWrite_NoLock(t) ==
    /\ Serving /\ pc[t] = "idle"
    /\ \E memory_mode \in BOOLEAN, disable_wal \in BOOLEAN, batch_size \in BatchSizeArgs :
         /\ debug_mode' = [memory_mode |-> memory_mode, disable_wal |-> disable_wal,
                           batch_size |-> IF batch_size = <<>> THEN debug_mode.batch_size
                                          ELSE batch_size[1]]
         /\ loc' = [loc EXCEPT ![t] = [Idle EXCEPT !.op = "set_debug_settings",
                                                   !.args = <<memory_mode, disable_wal, batch_size>>]]
    /\ pc' = [pc EXCEPT ![t] = "dbg_store"]
    /\ phase' = "up"
    /\ UNCHANGED <<chunks, disk, wal, todo, restarted, used, returned, walFailed, inflight,
                   io_faults, broken, persistence_enabled, debug_lock, locks,
                   base_path_empty, appended, unloadable, tmp, fd, unsaved>>

\* set_debug_settings, up to the store: debug_mode.write() waits for the lock
\* and holds it to the end of the call; memory_mode and disable_wal are
\* written, batch_size only when it is Some(size).
DebugWrite(t) ==
    /\ Serving /\ pc[t] = "idle" /\ debug_lock = 0
    /\ \E memory_mode \in BOOLEAN, disable_wal \in BOOLEAN, batch_size \in BatchSizeArgs :
         /\ debug_mode' = [memory_mode |-> memory_mode, disable_wal |-> disable_wal,
                           batch_size |-> IF batch_size = <<>> THEN debug_mode.batch_size
                                          ELSE batch_size[1]]
         /\ loc' = [loc EXCEPT ![t] = [Idle EXCEPT !.op = "set_debug_settings",
                                                   !.args = <<memory_mode, disable_wal, batch_size>>]]
    /\ debug_lock' = t
    /\ pc' = [pc EXCEPT ![t] = "dbg_store"]
    /\ phase' = "up"
    /\ UNCHANGED <<chunks, disk, wal, todo, restarted, used, returned, walFailed, inflight,
                   io_faults, broken, persistence_enabled, locks,
                   base_path_empty, appended, unloadable, tmp, fd, unsaved>>

\* set_debug_settings, the rest: persistence_enabled.store(!memory_mode), then
\* Ok(()) drops the guard.
DebugStore(t) ==
    /\ pc[t] = "dbg_store"
    /\ persistence_enabled' = ~loc[t].args[1]
    /\ debug_lock' = 0
    /\ Return(t, "set_debug_settings", <<>>, "Ok")
    /\ UNCHANGED <<chunks, disk, wal, phase, todo, restarted, used, walFailed, inflight,
                   io_faults, broken, debug_mode, locks,
                   base_path_empty, appended, unloadable, tmp, fd, unsaved>>

\* ------------------------------------------------------------------- locks

\* The calls whose locks are followed step by step.
MaxCalls == 2

\* What the lock-level steps leave alone: the effects of the calls on the
\* chunks and the files are those of the actions above.
store == <<chunks, disk, wal, phase, todo, restarted, used, walFailed, inflight, io_faults,
           broken, persistence_enabled, debug_mode, base_path_empty, appended, unloadable,
           tmp, fd, unsaved, log_file, removed>>

\* The steps of a call that matter to the locks: lock() / read() / write() on
\* a lock, the drop of its guard, and the work in between.  The locks are
\* StorageEngine::chunks ("chunks.read" and "chunks.write" for its two
\* modes), WalManager::log_file, PersistenceManager::active_records and
\* StorageEngine::debug_mode.
Acquire(lock) == [kind |-> "acquire", name |-> lock]
Release(lock) == [kind |-> "release", name |-> lock]
Do(what) == [kind |-> "do", name |-> what]

\* One way through a function: the steps it takes and whether it returns Ok.
Path(steps, ok) == [steps |-> steps, ok |-> ok]

\* `first` and, where it returned Ok, `second` after it: the `?` and the
\* `return Err(e)` of the callers end the call on the first error.
then(first, second) ==
    {a \in first : ~a.ok}
        \cup {Path(a.steps \o b.steps, b.ok) : a \in {x \in first : x.ok}, b \in second}

\* WalManager::append_record: the frame is written and synced under the
\* log_file mutex; the guard drops when the function returns, Ok or Err.
wal_append_record ==
    {Path(<<Acquire("log_file"), Do("write_all"), Release("log_file")>>, ok) : ok \in BOOLEAN}

\* PersistenceManager::append_record: the WAL append, then the insert into
\* active_records under its mutex.
append_record_paths ==
    then(wal_append_record,
         {Path(<<Acquire("active_records"), Do("active_records.insert"),
                 Release("active_records")>>, TRUE)})

\* PersistenceManager::save_chunk takes no lock.
save_chunk_paths == {Path(<<Do("save_chunk")>>, ok) : ok \in BOOLEAN}

\* A mark_chunk_durable that never gives the active_records mutex back.
mark_chunk_durable_paths_KeepsGuard ==
    {Path(<<Acquire("active_records"), Do("mark_chunk_durable")>>, TRUE)}

\* PersistenceManager::mark_chunk_durable: retain on active_records under its
\* mutex.
mark_chunk_durable_paths ==
    {Path(<<Acquire("active_records"), Do("mark_chunk_durable"),
            Release("active_records")>>, TRUE)}

\* PersistenceManager::truncate_wal: the new file is created, renamed and
\* reopened with no lock held, then the handle is replaced under the log_file
\* mutex.
truncate_wal_paths ==
    then({Path(<<Do("truncate_wal")>>, ok) : ok \in BOOLEAN},
         {Path(<<Acquire("log_file"), Do("replace log_file"), Release("log_file")>>, TRUE)})

\* mark_clean of the persisted chunks under a write lock of their own.
mark_clean_paths ==
    {Path(<<Acquire("chunks.write"), Do("mark_clean"), Release("chunks.write")>>, TRUE)}

\* An insert that keeps the write guard while it persists the full chunk.
insert_snapshot_NoDrop ==
    {Path(<<Acquire("chunks.write"), Do("append"), Do("clone")>>, TRUE)}

\* insert_internal / insert_batch with a chunk that is full: append and clone
\* under the write lock, then drop(chunks).
insert_snapshot ==
    {Path(<<Acquire("chunks.write"), Do("append"), Do("clone"), Release("chunks.write")>>, TRUE)}

\* insert_internal / insert_batch from the write lock on: append fails and
\* `?` returns (the guard drops), or the chunk is not to be persisted, or its
\* snapshot is saved, marked durable and the chunk marked clean.
insert_locked_paths ==
    {Path(<<Acquire("chunks.write"), Do("append"), Release("chunks.write")>>, ok) :
        ok \in BOOLEAN}
        \cup then(insert_snapshot,
                  then(save_chunk_paths, then(mark_chunk_durable_paths, mark_clean_paths)))

\* StorageEngine::insert: with persistence enabled append_record first.
insert_paths == insert_locked_paths \cup then(append_record_paths, insert_locked_paths)

\* StorageEngine::insert_batch: nothing for no records.
insert_batch_paths == {Path(<<>>, TRUE)} \cup insert_locked_paths

\* StorageEngine::query_range: InvalidTimeRange before any lock, or the
\* chunks read under the read lock.
query_range_paths ==
    {Path(<<>>, FALSE)}
        \cup {Path(<<Acquire("chunks.read"), Do("get_range"), Release("chunks.read")>>, ok) :
                 ok \in BOOLEAN}

\* StorageEngine::get_latest: the chunks read under the read lock.
get_latest_paths ==
    {Path(<<Acquire("chunks.read"), Do("get_latest"), Release("chunks.read")>>, TRUE)}

\* flush_all's loop over n snapshots: save_chunk, then mark_chunk_durable.
RECURSIVE save_loop(_)
save_loop(n) ==
    IF n = 0 THEN {Path(<<>>, TRUE)}
    ELSE then(then(save_chunk_paths, mark_chunk_durable_paths), save_loop(n - 1))

\* StorageEngine::flush_all: nothing without persistence; else the dirty
\* chunks cloned under the read lock, the save loop with no lock, mark_clean
\* under the write lock when there was a dirty chunk, then truncate_wal.
flush_all_paths ==
    {Path(<<>>, TRUE)}
        \cup UNION {then({Path(<<Acquire("chunks.read"), Do("clone"),
                                 Release("chunks.read")>>, TRUE)},
                         then(save_loop(n),
                              then(IF n = 0 THEN {Path(<<>>, TRUE)} ELSE mark_clean_paths,
                                   truncate_wal_paths))) : n \in 0 .. MaxRecords}

\* StorageEngine::cleanup_old_chunks: flush_all()?, then retain under the
\* write lock.
cleanup_old_chunks_paths ==
    then(flush_all_paths,
         {Path(<<Acquire("chunks.write"), Do("retain"), Release("chunks.write")>>, TRUE)})

\* StorageEngine::set_debug_settings: everything under the debug_mode write
\* lock.
set_debug_settings_paths ==
    {Path(<<Acquire("debug_mode"), Do("debug_settings"), Do("persistence_enabled.store"),
            Release("debug_mode")>>, TRUE)}

LockOps == {"insert", "insert_batch", "query_range", "get_latest", "flush_all",
            "cleanup_old_chunks", "set_debug_settings"}

Paths(op) ==
    CASE op = "insert" -> insert_paths
      [] op = "insert_batch" -> insert_batch_paths
      [] op = "query_range" -> query_range_paths
      [] op = "get_latest" -> get_latest_paths
      [] op = "flush_all" -> flush_all_paths
      [] op = "cleanup_old_chunks" -> cleanup_old_chunks_paths
      [] op = "set_debug_settings" -> set_debug_settings_paths

\* The locks thread t holds.
holds(t) == held[t] \cup (IF debug_lock = t THEN {"debug_mode"} ELSE {})

\* The chunks lock in either mode.
ChunksLock == {"chunks.read", "chunks.write"}

\* Whether lock() / read() / write() of thread t returns now: an RwLock gives
\* a read guard while no write guard is out and a write guard while no guard
\* is out, a Mutex its guard while none is out.
can_lock(t, lock) ==
    CASE lock = "chunks.read" -> \A u \in Threads : "chunks.write" \notin held[u]
      [] lock = "chunks.write" -> \A u \in Threads : held[u] \cap ChunksLock = {}
      [] lock = "debug_mode" -> debug_lock = 0
      [] OTHER -> \A u \in Threads : lock \notin held[u]

\* The step thread t takes next.
next_step(t) == Head(loc[t].steps)

at_step(t, kind) == pc[t] = "locks" /\ loc[t].steps # <<>> /\ next_step(t).kind = kind

\* A call starts: the way it will take through its function is chosen here.
LockCall(t) ==
    /\ Serving /\ pc[t] = "idle" /\ calls < MaxCalls
    /\ calls' = calls + 1
    /\ \E op \in LockOps : \E path \in Paths(op) :
         loc' = [loc EXCEPT ![t] = [Idle EXCEPT !.op = op, !.steps = path.steps]]
    /\ pc' = [pc EXCEPT ![t] = "locks"]
    /\ UNCHANGED <<store, returned, debug_lock, held>>

\* lock(), read() or write() returns its guard.
LockAcquire(t) ==
    /\ at_step(t, "acquire") /\ can_lock(t, next_step(t).name)
    /\ IF next_step(t).name = "debug_mode"
       THEN debug_lock' = t /\ held' = held
       ELSE held' = [held EXCEPT ![t] = @ \cup {next_step(t).name}] /\ debug_lock' = debug_lock
    /\ loc' = [loc EXCEPT ![t].steps = Tail(@)]
    /\ UNCHANGED <<store, pc, returned, calls>>

\* A guard is dropped.
LockRelease(t) ==
    /\ at_step(t, "release")
    /\ IF next_step(t).name = "debug_mode"
       THEN debug_lock' = 0 /\ held' = held
       ELSE held' = [held EXCEPT ![t] = @ \ {next_step(t).name}] /\ debug_lock' = debug_lock
    /\ loc' = [loc EXCEPT ![t].steps = Tail(@)]
    /\ UNCHANGED <<store, pc, returned, calls>>

\* The work between two lock steps.
LockDo(t) ==
    /\ at_step(t, "do")
    /\ loc' = [loc EXCEPT ![t].steps = Tail(@)]
    /\ UNCHANGED <<store, pc, returned, debug_lock, held, calls>>

\* The call returns.
LockReturn(t) ==
    /\ pc[t] = "locks" /\ loc[t].steps = <<>>
    /\ Return(t, loc[t].op, <<>>, "Ok")
    /\ UNCHANGED <<store, debug_lock, held, calls>>

\* ------------------------------------------------- save_chunk step by step

\* The length of serde_json::to_vec(chunk), counted in records: the JSON of
\* a chunk grows with the records it holds.
file_size(data) == 1 + data.record_count

\* write_all of `data` from offset 0 into a file that holds `file`: the bytes
\* beyond the written ones stay, so a longer old content leaves a file that
\* is not the JSON of a chunk.
overwrite(file, data) ==
    IF file_size(data) >= file.size
    THEN [size |-> file_size(data), data |-> <<data>>]
    ELSE [size |-> file.size, data |-> <<>>]

\* The chunk file `id` as a file: its size and, when whole, its content.
chunk_file(id) ==
    IF id \in DOMAIN disk THEN [size |-> file_size(disk[id]), data |-> <<disk[id]>>]
    ELSE [size |-> broken[id], data |-> <<>>]

\* save_chunk of a thread at its persist step: File::create(<id>.tmp), which
\* creates the file or empties the one that is there (other threads may have
\* it open).
SaveCreate(t) ==
    /\ pc[t] \in {"save", "fl_save"} /\ fd[t].at = "none"
    /\ \E id \in loc[t].left, ok \in IoResults :
         IF ok
         THEN /\ tmp' = (id :> [size |-> 0, data |-> <<>>]) @@ tmp
              /\ fd' = [fd EXCEPT ![t] = [at |-> "tmp", id |-> id, written |-> FALSE]]
              /\ UNCHANGED <<pc, loc, returned, unsaved>>
         ELSE /\ UNCHANGED <<tmp, fd>>
              /\ unsaved' = IF pc[t] = "fl_save" THEN loc[t].left ELSE unsaved
              /\ Return(t, loc[t].op, loc[t].recs, "PersistenceError")
    /\ UNCHANGED <<chunks, disk, wal, phase, todo, restarted, used, walFailed, inflight,
                   io_faults, broken, debug, locks, base_path_empty, appended, unloadable>>

\* save_chunk: write_all and sync_all through the open file, which by now
\* may be named <id>.chunk (another thread renamed it) or have no name.
SaveWrite(t) ==
    /\ fd[t].at # "none" /\ ~fd[t].written
    /\ LET id == fd[t].id
           data == Serialize(loc[t].snaps[id])
       IN /\ fd' = [fd EXCEPT ![t].written = TRUE]
          /\ IF fd[t].at = "tmp"
             THEN /\ tmp' = [tmp EXCEPT ![id] = overwrite(@, data)]
                  /\ UNCHANGED <<disk, broken>>
             ELSE IF fd[t].at = "chunk"
             THEN LET now == overwrite(chunk_file(id), data)
                  IN /\ disk' = IF now.data = <<>> THEN without(disk, id)
                                ELSE (id :> now.data[1]) @@ disk
                     /\ broken' = IF now.data = <<>> THEN (id :> now.size) @@ broken
                                  ELSE without(broken, id)
                     /\ tmp' = tmp
             ELSE UNCHANGED <<tmp, disk, broken>>
    /\ UNCHANGED <<chunks, wal, pc, loc, phase, todo, restarted, used, returned, walFailed,
                   inflight, io_faults, debug, locks, base_path_empty, appended, unloadable, unsaved>>

\* The open files after <id>.tmp was renamed to <id>.chunk by thread t: the
\* other threads that had the .tmp file open now have the .chunk file open,
\* and those that had the replaced .chunk file open hold a file with no name.
after_rename(t, id) ==
    [u \in Threads |->
        IF u = t THEN NoFd
        ELSE IF fd[u].at = "tmp" /\ fd[u].id = id THEN [fd[u] EXCEPT !.at = "chunk"]
        ELSE IF fd[u].at = "chunk" /\ fd[u].id = id THEN [fd[u] EXCEPT !.at = "orphan"]
        ELSE fd[u]]

\* save_chunk: fs::rename(<id>.tmp, <id>.chunk), which fails when <id>.tmp is
\* not there any more; then the caller goes on (mark_chunk_durable cannot
\* fail): the next snapshot of flush_all, or mark_clean.
SaveRename(t) ==
    /\ fd[t].at # "none" /\ fd[t].written
    /\ LET id == fd[t].id
       IN \E ok \in IoResults :
            IF ok /\ id \in DOMAIN tmp
            THEN /\ disk' = IF tmp[id].data = <<>> THEN without(disk, id)
                            ELSE (id :> tmp[id].data[1]) @@ disk
                 /\ broken' = IF tmp[id].data = <<>> THEN (id :> tmp[id].size) @@ broken
                              ELSE without(broken, id)
                 /\ tmp' = without(tmp, id)
                 /\ fd' = after_rename(t, id)
                 /\ pc' = [pc EXCEPT ![t] = IF pc[t] = "save" THEN "clean"
                                            ELSE IF loc[t].left = {id} THEN "fl_clean"
                                            ELSE "fl_save"]
                 /\ loc' = [loc EXCEPT ![t].left = @ \ {id}]
                 /\ UNCHANGED <<returned, unsaved>>
            ELSE /\ fd' = [fd EXCEPT ![t] = NoFd]
                 /\ UNCHANGED <<disk, broken, tmp>>
                 /\ unsaved' = IF pc[t] = "fl_save" THEN loc[t].left ELSE unsaved
                 /\ Return(t, loc[t].op, loc[t].recs, "PersistenceError")
    /\ UNCHANGED <<chunks, wal, phase, todo, restarted, used, walFailed, inflight,
                   io_faults, debug, locks, base_path_empty, appended, unloadable>>

\* ----------------------------------------------------------- store_records

\* The batches of n new records.
Batches(n) ==
    {[i \in 1 .. n |-> Record(f[i][1], f[i][2], used + i)] :
        f \in [1 .. n -> Timestamps \X Metrics]}

\* The orders in which a HashMap may iterate over the keys S.
Orders(S) ==
    {o \in [1 .. Cardinality(S) -> S] : \A i, j \in DOMAIN o : o[i] = o[j] => i = j}

\* store_records: records_by_chunk, the records grouped by
\* chunk_id_for_timestamp, each group in input order, iterated in `order`.
records_by_chunk(records, order) ==
    [i \in DOMAIN order |->
        [chunk_id |-> order[i],
         records |-> SelectSeq(records,
             LAMBDA r : chunk_id_for_timestamp(r.timestamp, chunk_duration) = order[i])]]

\* records_by_chunk.values().flatten()
RECURSIVE flatten(_)
flatten(groups) ==
    IF groups = <<>> THEN <<>> ELSE Head(groups).records \o flatten(Tail(groups))

\* One append_record of append_records_to_wal (the path for at most 100
\* records); its error ends store_records.
WalStep(t, l) ==
    \E ok \in IoResults :
      LET record == Head(l.wq)
      IN IF ok
         THEN /\ wal' = write_all(wal, Frame(record, "none"))
              /\ pc' = [pc EXCEPT ![t] = IF Tail(l.wq) = <<>> THEN "sr_batch" ELSE "sr_wal"]
              /\ loc' = [loc EXCEPT ![t] = [l EXCEPT !.wq = Tail(@)]]
              /\ UNCHANGED <<returned, walFailed>>
         ELSE /\ \E left \in Leftovers(record) : wal' = wal \o left
              /\ walFailed' = walFailed \cup {[op |-> "store_records", rec |-> record]}
              /\ Return(t, "store_records", l.recs, "StorageError")

\* QueryEngine::store_records: group the records, then the first
\* append_record of StorageEngine::append_records_to_wal, which returns Ok
\* at once when persistence is not enabled.
StoreRecords(t) ==
    /\ Serving /\ pc[t] = "idle"
    /\ \E n \in 1 .. MaxBatch :
         /\ used + n <= MaxRecords
         /\ used' = used + n
         /\ \E records \in Batches(n) :
              \E order \in Orders({chunk_id_for_timestamp(records[i].timestamp, chunk_duration) :
                                      i \in 1 .. n}) :
                LET groups == records_by_chunk(records, order)
                    l == [Idle EXCEPT !.op = "store_records", !.recs = records,
                                      !.wq = flatten(groups), !.gq = groups]
                IN IF persistence_enabled
                   THEN WalStep(t, l)
                   ELSE /\ pc' = [pc EXCEPT ![t] = "sr_batch"]
                        /\ loc' = [loc EXCEPT ![t] = [l EXCEPT !.wq = <<>>]]
                        /\ UNCHANGED <<wal, returned, walFailed>>
    /\ phase' = "up"
    /\ UNCHANGED <<chunks, disk, todo, restarted, inflight, io_faults, broken, aux>>

\* append_records_to_wal: the next append_record.
StoreWal(t) ==
    /\ pc[t] = "sr_wal"
    /\ WalStep(t, loc[t])
    /\ UNCHANGED <<chunks, disk, phase, todo, restarted, used, inflight, io_faults, broken, aux>>

\* The write-locked part of insert_batch and what follows it.
BatchStep(t, l, chunk_id, records, rest) ==
    LET out == insert_batch_locked(chunks, chunk_id, records)
    IN /\ chunks' = out.chunks
       /\ IF out.res # "Ok"
          THEN Return(t, l.op, l.recs, IF l.op = "store_records" THEN "StorageError" ELSE out.res)
          ELSE IF out.persist
          THEN /\ pc' = [pc EXCEPT ![t] = "save"]
               /\ loc' = [loc EXCEPT ![t] = [l EXCEPT !.gq = rest,
                                                      !.snaps = (chunk_id :> out.chunks[chunk_id]),
                                                      !.left = {chunk_id}]]
               /\ UNCHANGED returned
          ELSE IF rest # <<>>
          THEN /\ pc' = [pc EXCEPT ![t] = "sr_batch"]
               /\ loc' = [loc EXCEPT ![t] = [l EXCEPT !.gq = rest]]
               /\ UNCHANGED returned
          ELSE Return(t, l.op, l.recs, "Ok")

\* store_records: insert_batch of the next chunk group.
StoreBatch(t) ==
    /\ pc[t] = "sr_batch"
    /\ LET g == Head(loc[t].gq)
       IN BatchStep(t, loc[t], g.chunk_id, g.records, Tail(loc[t].gq))
    /\ UNCHANGED <<disk, wal, phase, todo, restarted, used, walFailed, inflight, io_faults, broken, aux>>

\* StorageEngine::insert_batch called directly: any chunk_id, no WAL write.
InsertBatch(t) ==
    /\ Serving /\ pc[t] = "idle"
    /\ \E n \in 1 .. MaxBatch :
         /\ used + n <= MaxRecords
         /\ used' = used + n
         /\ \E records \in Batches(n), chunk_id \in BatchChunkIds :
              BatchStep(t, [Idle EXCEPT !.op = "insert_batch", !.recs = records],
                        chunk_id, records, <<>>)
    /\ phase' = "up"
    /\ UNCHANGED <<disk, wal, todo, restarted, walFailed, inflight, io_faults, broken, aux>>

\* ------------------------------------------------------- crash and recovery

\* The process dies: memory is lost and open files are closed, the files
\* stay.  A thread may have been inside append_record, which leaves a torn
\* frame at the end of the WAL.
Crash ==
    /\ Serving /\ ~restarted
    /\ LET running == UNION {SeqToSet(loc[t].recs) : t \in Threads}
       IN \/ /\ wal' = wal
             /\ used' = used
             /\ inflight' = running
          \/ /\ used < MaxRecords /\ persistence_enabled
             /\ \E t \in Threads : pc[t] = "idle"
             /\ \E ts \in Timestamps, m \in Metrics, torn \in {"hdr", "payload"} :
                  /\ wal' = Append(wal, Frame(Record(ts, m, used + 1), torn))
                  /\ inflight' = running \cup {Record(ts, m, used + 1)}
             /\ used' = used + 1
    /\ chunks' = NoChunks
    /\ pc' = [t \in Threads |-> "idle"]
    /\ loc' = [t \in Threads |-> Idle]
    /\ phase' = "down"
    /\ restarted' = TRUE
    /\ fd' = [t \in Threads |-> NoFd]
    /\ unsaved' = {}
    /\ persistence_enabled' = TRUE
    /\ debug_mode' = NewDebugSettings
    /\ debug_lock' = 0
    /\ log_file' = "records.wal"
    /\ UNCHANGED <<disk, todo, returned, walFailed, io_faults, broken,
                   held, calls, removed, base_path_empty, appended, unloadable, tmp>>

\* The entries of <base>/chunks: the .chunk files, whole or not, and the
\* .tmp files.
chunks_dir ==
    {[stem |-> id, ext |-> "chunk"] : id \in DOMAIN disk \cup DOMAIN broken}
        \cup {[stem |-> id, ext |-> "tmp"] : id \in DOMAIN tmp}

\* PersistenceManager::list_chunks: the stems of the entries with the
\* extension "chunk".
list_chunks == {e.stem : e \in {x \in chunks_dir : x.ext = "chunk"}}

\* The sets of listed chunk files load_chunk may fail on: the files that do
\* not hold the whole JSON of a TimeChunk, and any file when reads may fail.
LoadFailures(ids) ==
    {bad \in SUBSET ids : DOMAIN broken \subseteq bad /\ ("read" \in io_faults \/ bad = DOMAIN broken)}

\* A variant of RecoverLoad where a chunk file that fails to load makes
\* recover return the error.
RecoverLoad_AbortOnBadChunk ==
    /\ phase = "down"
    /\ \E bad \in LoadFailures(list_chunks) :
         /\ unloadable' = bad
         /\ chunks' = [id \in list_chunks \ bad |-> Deserialize(disk[id])]
         /\ LET log == replay(wal)
            IN /\ todo' = log.records
               /\ phase' = IF log.res = "Err" \/ bad # {} THEN "failed"
                           ELSE IF log.records = <<>> THEN "recovered" ELSE "recovering"
    /\ UNCHANGED <<disk, wal, pc, loc, restarted, used, returned, walFailed, inflight,
                   io_faults, debug, locks, base_path_empty, appended, broken, tmp, fd, unsaved>>

\* StorageEngine::recover, first part: list_chunks, load_chunk of every
\* file (a failure is logged and the file skipped), then replay_wal, whose
\* error `?` makes StorageEngine::new fail.
RecoverLoad ==
    /\ phase = "down"
    /\ \E bad \in LoadFailures(list_chunks) :
         /\ unloadable' = bad
         /\ chunks' = [id \in list_chunks \ bad |-> Deserialize(disk[id])]
         /\ LET log == replay(wal)
            IN /\ todo' = log.records
               /\ phase' = IF log.res = "Err" THEN "failed"
                           ELSE IF log.records = <<>> THEN "recovered" ELSE "recovering"
    /\ UNCHANGED <<disk, wal, pc, loc, restarted, used, returned, walFailed, inflight,
                   io_faults, debug, locks, base_path_empty, appended, broken, tmp, fd, unsaved>>

\* A replay loop that calls insert_internal(record, true): the record is
\* appended to the WAL again.
RecoverReplay_WritesWal ==
    /\ phase = "recovering"
    /\ LET out == insert_locked(chunks, Head(todo))
       IN chunks' = out.chunks
    /\ wal' = Append(wal, Frame(Head(todo), "none"))
    /\ todo' = Tail(todo)
    /\ phase' = IF Tail(todo) = <<>> THEN "recovered" ELSE "recovering"
    /\ UNCHANGED <<disk, broken, pc, loc, restarted, used, returned, walFailed, inflight,
                   io_faults, aux>>

\* recover, the replay loop: insert_internal(record, false) of the next WAL
\* record, whole (no other thread runs); its error is logged and skipped.
RecoverReplay ==
    /\ phase = "recovering"
    /\ LET out == insert_locked(chunks, Head(todo))
           id == out.chunk_id
       IN IF out.res = "Ok" /\ out.persist
          THEN \E ok \in IoResults :
                 /\ disk' = IF ok THEN save_chunk(disk, out.chunks[id]) ELSE disk
                 /\ broken' = IF ok THEN without(broken, id) ELSE broken
                 /\ chunks' = IF ok THEN clean_all(out.chunks, {id}) ELSE out.chunks
          ELSE /\ chunks' = out.chunks
               /\ UNCHANGED <<disk, broken>>
    /\ todo' = Tail(todo)
    /\ phase' = IF Tail(todo) = <<>> THEN "recovered" ELSE "recovering"
    /\ UNCHANGED <<wal, pc, loc, restarted, used, returned, walFailed, inflight, io_faults, aux>>

\* ------------------------------------------------- the WAL's own operations

\* The records PersistenceManager may be handed: any timestamp and metric,
\* a finite or a non-finite value.
WalInputs == {Record(ts, m, v) : ts \in Timestamps, m \in Metrics, v \in NonFinite \cup {1}}

\* The slow path of append_records: append_record for each record.
RECURSIVE append_each(_, _)
append_each(log, records) ==
    IF records = <<>> THEN log
    ELSE append_each(Append(log, Frame(Head(records), "none")), Tail(records))

\* The fast path of append_records: every frame pre-serialized into all_data.
all_data(records) == [i \in 1 .. Len(records) |-> Frame(records[i], "none")]

\* PersistenceManager::append_records when every write succeeds: nothing for
\* an empty batch or an empty base_path, one write_all of all_data for more
\* than FastPathLen records, append_record for each record otherwise.
append_records(log, records) ==
    IF records = <<>> THEN log
    ELSE IF base_path_empty THEN log
    ELSE IF Len(records) > FastPathLen THEN log \o all_data(records)
    ELSE append_each(log, records)

\* PersistenceManager::append_record returns Ok.
AppendRecord ==
    /\ phase = "up" /\ Len(appended) < MaxWalLen
    /\ \E record \in WalInputs :
         /\ wal' = Append(wal, Frame(record, "none"))
         /\ appended' = Append(appended, record)
    /\ UNCHANGED <<chunks, disk, pc, loc, phase, todo, restarted, used, returned,
                   walFailed, inflight, io_faults, debug, locks, base_path_empty, unloadable,
                   broken, tmp, fd, unsaved>>

\* PersistenceManager::append_records returns Ok.
AppendRecords ==
    /\ phase = "up"
    /\ \E n \in 0 .. (FastPathLen + 1) :
         /\ Len(appended) + n <= MaxWalLen
         /\ \E records \in [1 .. n -> WalInputs] :
              /\ wal' = append_records(wal, records)
              /\ appended' = appended \o records
    /\ UNCHANGED <<chunks, disk, pc, loc, phase, todo, restarted, used, returned,
                   walFailed, inflight, io_faults, debug, locks, base_path_empty, unloadable,
                   broken, tmp, fd, unsaved>>

\* PersistenceManager::truncate_wal returns Ok.
TruncateWal ==
    /\ phase = "up" /\ wal # <<>>
    /\ wal' = <<>>
    /\ appended' = <<>>
    /\ UNCHANGED <<chunks, disk, pc, loc, phase, todo, restarted, used, returned,
                   walFailed, inflight, io_faults, debug, locks, base_path_empty, unloadable,
                   broken, tmp, fd, unsaved>>

\* WriteAheadLog::append_record step by step: the lock of log_file and the
\* first write_all, of the 4-byte length.
AppendLength(t) ==
    /\ phase = "up" /\ pc[t] = "idle" /\ Len(wal) < MaxWalLen
    /\ \A u \in Threads : pc[u] # "wal_payload"
    /\ \E record \in WalInputs :
         /\ wal' = write_all(wal, Frame(record, "len"))
         /\ loc' = [loc EXCEPT ![t] = [Idle EXCEPT !.op = "append_record", !.recs = <<record>>]]
    /\ pc' = [pc EXCEPT ![t] = "wal_payload"]
    /\ UNCHANGED <<chunks, disk, phase, todo, restarted, used, returned, walFailed, inflight,
                   io_faults, broken, aux>>

\* append_record, the second write_all, of the payload, and sync_data; the
\* file is opened for appending, so the payload goes to the end of the file
\* as it is now.  The guard is dropped and Ok returned.
AppendPayload(t) ==
    /\ pc[t] = "wal_payload"
    /\ LET record == loc[t].recs[1]
       IN /\ wal' = IF wal # <<>> /\ wal[Len(wal)] = Frame(record, "len")
                     THEN [wal EXCEPT ![Len(wal)] = Frame(record, "none")]
                     ELSE write_all(wal, Frame(record, "data"))
          /\ appended' = Append(appended, record)
          /\ Return(t, "append_record", <<record>>, "Ok")
    /\ UNCHANGED <<chunks, disk, phase, todo, restarted, used, walFailed, inflight, io_faults,
                   broken, debug, locks, base_path_empty, unloadable, tmp, fd, unsaved>>

\* The batches of more than FastPathLen records: one metric at one timestamp.
FastBatches ==
    {[i \in 1 .. (FastPathLen + 1) |-> Record(ts, m, i)] : ts \in Timestamps, m \in Metrics}

\* PersistenceManager::append_records, the fast path: the file is opened by
\* its path for appending and all_data written with one write_all; log_file
\* is not locked.
AppendBatch(t) ==
    /\ phase = "up" /\ pc[t] = "idle" /\ Len(wal) <= MaxWalLen
    /\ \E records \in FastBatches :
         /\ wal' = append_records(wal, records)
         /\ appended' = appended \o records
    /\ UNCHANGED <<chunks, disk, pc, loc, phase, todo, restarted, used, returned,
                   walFailed, inflight, io_faults, debug, locks, base_path_empty, unloadable,
                   broken, tmp, fd, unsaved>>

\* The process stops and records.wal is left cut at some byte offset: after
\* k whole frames, or inside the length or the payload of frame k + 1.
CutWal ==
    /\ phase = "up"
    /\ \E k \in 0 .. Len(wal), torn \in {"none", "hdr", "payload"} :
         /\ torn # "none" => k < Len(wal)
         /\ wal' = IF torn = "none" THEN SubSeq(wal, 1, k)
                   ELSE Append(SubSeq(wal, 1, k), [wal[k + 1] EXCEPT !.torn = torn])
    /\ phase' = "down"
    /\ UNCHANGED <<chunks, disk, pc, loc, todo, restarted, used, returned,
                   walFailed, inflight, io_faults, broken, aux>>

\* ------------------------------------------------------------------ queries

\* TimeChunk::get_latest: the last record pushed for the metric, or
\* IndexError when the chunk has none.
chunk_get_latest(chunk, metric) ==
    IF chunk.records[metric] = <<>> THEN [res |-> "IndexError", record |-> <<>>]
    ELSE [res |-> "Ok",
          record |-> <<chunk.records[metric][Len(chunk.records[metric])]>>]

\* StorageEngine::get_latest over the chunks in the order chunks.values()
\* yields them; `latest` is the Option (a sequence of at most one record).
RECURSIVE latest_fold(_, _, _, _)
latest_fold(chs, order, metric, latest) ==
    IF order = <<>> THEN [res |-> "Ok", latest |-> latest]
    ELSE LET got == chunk_get_latest(chs[Head(order)], metric)
         IN IF got.res # "Ok" THEN [res |-> "ChunkError", latest |-> <<>>]
            ELSE IF latest = <<>> \/ got.record[1].timestamp > latest[1].timestamp
            THEN latest_fold(chs, Tail(order), metric, got.record)
            ELSE latest_fold(chs, Tail(order), metric, latest)

\* StorageEngine::get_latest: the results it may give, one for each order in
\* which the HashMap may yield the chunks.
get_latest(chs, metric) ==
    {latest_fold(chs, order, metric, <<>>) : order \in Orders(DOMAIN chs)}

\* TimeChunk::get_range
get_range(chunk, start, end, metric) ==
    IF start > chunk.end_time \/ end < chunk.start_time
    THEN [res |-> "Ok", records |-> <<>>]
    ELSE IF chunk.records[metric] = <<>> THEN [res |-> "IndexError", records |-> <<>>]
    ELSE [res |-> "Ok",
          records |-> SelectSeq(chunk.records[metric],
                                LAMBDA r : r.timestamp >= start /\ r.timestamp < end)]

\* StorageEngine::query_range, the loop over
\* (start_chunk..=end_chunk).step_by(chunk_duration) from chunk_id on.
RECURSIVE range_fold(_, _, _, _, _, _, _)
range_fold(chs, chunk_id, end_chunk, start, end, metric, results) ==
    IF chunk_id > end_chunk THEN [res |-> "Ok", records |-> results]
    ELSE IF chunk_id \notin DOMAIN chs
    THEN range_fold(chs, chunk_id + chunk_duration, end_chunk, start, end, metric, results)
    ELSE LET got == get_range(chs[chunk_id], start, end, metric)
         IN IF got.res # "Ok" THEN [res |-> "ChunkError", records |-> <<>>]
            ELSE range_fold(chs, chunk_id + chunk_duration, end_chunk, start, end, metric,
                            results \o got.records)

\* StorageEngine::query_range
query_range(chs, start, end, metric) ==
    IF start >= end THEN [res |-> "InvalidTimeRange", records |-> <<>>]
    ELSE range_fold(chs, get_chunk_id(start), get_chunk_id(end), start, end, metric, <<>>)

\* str::starts_with
starts_with(name, prefix) ==
    /\ Len(prefix) <= Len(chars[name])
    /\ SubSeq(chars[name], 1, Len(prefix)) = prefix

\* Vec::contains
contains(vec, x) == \E i \in DOMAIN vec : vec[i] = x

\* chunk.records.keys(): append creates the entry of a metric with its first
\* record, and nothing removes an entry.
keys(chunk) == {m \in Metrics : chunk.records[m] # <<>>}

\* get_matching_metrics, the inner loop over the keys of one chunk, with a
\* push that does not look for the name in the list first.
RECURSIVE push_matching_NoContains(_, _, _)
push_matching_NoContains(names, prefix, matching_metrics) ==
    IF names = <<>> THEN matching_metrics
    ELSE push_matching_NoContains(Tail(names), prefix,
             IF starts_with(Head(names), prefix)
             THEN Append(matching_metrics, Head(names))
             ELSE matching_metrics)

\* get_matching_metrics, the inner loop over the keys of one chunk.
RECURSIVE push_matching(_, _, _)
push_matching(names, prefix, matching_metrics) ==
    IF names = <<>> THEN matching_metrics
    ELSE push_matching(Tail(names), prefix,
             IF starts_with(Head(names), prefix) /\ ~contains(matching_metrics, Head(names))
             THEN Append(matching_metrics, Head(names))
             ELSE matching_metrics)

\* get_matching_metrics, the outer loop over chunks.values() in `order`,
\* the keys of chunk id iterated in key_order[id].
RECURSIVE matching_fold(_, _, _, _)
matching_fold(order, key_order, prefix, matching_metrics) ==
    IF order = <<>> THEN matching_metrics
    ELSE matching_fold(Tail(order), key_order, prefix,
                       push_matching(key_order[Head(order)], prefix, matching_metrics))

\* StorageEngine::get_matching_metrics: always Ok; the lists it may return,
\* one for each iteration order of the two HashMaps.
get_matching_metrics(chs, prefix) ==
    LET key_orders == {f \in [DOMAIN chs -> UNION {Orders(S) : S \in SUBSET Metrics}] :
                          \A id \in DOMAIN chs : f[id] \in Orders(keys(chs[id]))}
    IN {matching_fold(order, f, prefix, <<>>) : order \in Orders(DOMAIN chs), f \in key_orders}

\* get_metrics_by_resource_type, the loop over the metrics one chunk's
\* index lists for the resource type.
RECURSIVE push_new(_, _)
push_new(metrics, matching_metrics) ==
    IF metrics = <<>> THEN matching_metrics
    ELSE push_new(Tail(metrics),
                  IF contains(matching_metrics, Head(metrics)) THEN matching_metrics
                  ELSE Append(matching_metrics, Head(metrics)))

\* get_metrics_by_resource_type, the loop over chunks.values() in `order`.
RECURSIVE resource_fold(_, _, _, _)
resource_fold(chs, order, resource_type, matching_metrics) ==
    IF order = <<>> THEN matching_metrics
    ELSE LET index == chs[Head(order)].resource_metrics
         IN resource_fold(chs, Tail(order), resource_type,
                IF resource_type \in DOMAIN index
                THEN push_new(index[resource_type], matching_metrics)
                ELSE matching_metrics)

\* StorageEngine::get_metrics_by_resource_type: always Ok; the lists it may
\* return, one for each iteration order of the chunk map.
get_metrics_by_resource_type(chs, resource_type) ==
    {resource_fold(chs, order, resource_type, <<>>) : order \in Orders(DOMAIN chs)}

\* The fallback scan of query_by_resource_type: one entry for every chunk
\* and metric whose first record has the resource type, the chunks in any
\* order of the chunk map and the metrics of a chunk in any order of its
\* records map.  Nothing removes a metric that was pushed before.
fallback_scan(chs, resource_type) ==
    LET hits == {e \in (DOMAIN chs) \X Metrics :
                    /\ chs[e[1]].records[e[2]] # <<>>
                    /\ chs[e[1]].records[e[2]][1].resource_type = resource_type}
    IN {[i \in DOMAIN o |-> o[i][2]] :
           o \in {o \in Orders(hits) :
                     \A i, j, k \in DOMAIN o :
                        (i < j /\ j < k /\ o[i][1] = o[k][1]) => o[j][1] = o[i][1]}}

\* query_by_resource_type, the loop over the metrics: query_range for each,
\* its error ends the call.
RECURSIVE metrics_fold(_, _, _, _, _)
metrics_fold(chs, metrics, start, end, results) ==
    IF metrics = <<>> THEN [res |-> "Ok", records |-> results]
    ELSE LET got == query_range(chs, start, end, Head(metrics))
         IN IF got.res # "Ok" THEN [res |-> got.res, records |-> <<>>]
            ELSE metrics_fold(chs, Tail(metrics), start, end, results \o got.records)

\* StorageEngine::query_by_resource_type: the results it may return.
query_by_resource_type(chs, resource_type, start, end) ==
    UNION {{metrics_fold(chs, metrics, start, end, <<>>) :
              metrics \in IF indexed = <<>> THEN fallback_scan(chs, resource_type)
                           ELSE {indexed}} :
           indexed \in get_metrics_by_resource_type(chs, resource_type)}

\* ------------------------------------------------------------ QueryEngine

\* Aggregation
Aggregations == {"Mean", "Max", "Min", "Count", "Sum"}

\* values.iter().sum()
RECURSIVE sum_values(_)
sum_values(records) ==
    IF records = <<>> THEN 0 ELSE Head(records).value + sum_values(Tail(records))

\* An aggregate_all whose Count arm is the Sum arm.
aggregate_all_CountIsSum(records, aggregation) ==
    [records[1] EXCEPT !.value = sum_values(records)]

\* QueryEngine::aggregate_all of a non-empty Vec: the aggregate carries the
\* first record's timestamp, metric_name and resource_type.  The quotient
\* sum / len of Mean is kept as the pair <<sum, len>>.
aggregate_all(records, aggregation) ==
    LET first_record == records[1]
        values == {records[i].value : i \in DOMAIN records}
        value == CASE aggregation = "Mean" -> <<sum_values(records), Len(records)>>
                   [] aggregation = "Count" -> Len(records)
                   [] aggregation = "Sum" -> sum_values(records)
                   [] aggregation = "Max" -> CHOOSE v \in values : \A w \in values : v >= w
                   [] aggregation = "Min" -> CHOOSE v \in values : \A w \in values : v <= w
    IN [first_record EXCEPT !.value = value]

\* QueryEngine::aggregate_by_interval: the records grouped by
\* timestamp - timestamp % interval_secs, each group in input order, one
\* aggregate a group, in any order of the HashMap.
aggregate_by_interval(records, aggregation, interval_secs) ==
    LET start_of(r) == r.timestamp - rem(r.timestamp, interval_secs)
        starts == {start_of(records[i]) : i \in DOMAIN records}
        group(k) == SelectSeq(records, LAMBDA r : start_of(r) = k)
    IN {[i \in DOMAIN order |-> aggregate_all(group(order[i]), aggregation)] :
           order \in Orders(starts)}

\* QueryEngine::aggregate_records: the lists it may return.  `interval` is
\* <<>> for None and <<secs>> for Some.
aggregate_records(records, aggregation, interval) ==
    IF records = <<>> THEN {<<>>}
    ELSE IF interval # <<>> THEN aggregate_by_interval(records, aggregation, interval[1])
    ELSE {<<aggregate_all(records, aggregation)>>}

\* QueryEngine::query_range for a query of one metric with an aggregation:
\* the results it may return.
engine_query_range(chs, start_time, end_time, metric, aggregation, interval) ==
    IF start_time >= end_time THEN {[res |-> "InvalidTimeRange", records |-> <<>>]}
    ELSE LET got == query_range(chs, start_time, end_time, metric)
         IN IF got.res # "Ok" THEN {[res |-> "StorageError", records |-> <<>>]}
            ELSE {[res |-> "Ok", records |-> out] :
                     out \in aggregate_records(got.records, aggregation, interval)}

\* QueryEngine::query_by_resource_type
engine_query_by_resource_type(chs, resource_type, start_time, end_time) ==
    IF start_time >= end_time THEN {[res |-> "InvalidTimeRange", records |-> <<>>]}
    ELSE {IF got.res = "Ok" THEN got ELSE [res |-> "StorageError", records |-> <<>>] :
             got \in query_by_resource_type(chs, resource_type, start_time, end_time)}

\* Vec::sort_by_key on the keys of a map
RECURSIVE sorted_keys(_)
sorted_keys(S) ==
    IF S = {} THEN <<>>
    ELSE LET least == CHOOSE k \in S : \A other \in S : k <= other
         IN <<least>> \o sorted_keys(S \ {least})

\* query_time_chunked, after the fetch: the records grouped by
\* timestamp - timestamp % chunk_size, each group in input order, the groups
\* sorted by start_time.  A chunk size of 0 is a remainder by zero.
time_chunks(records, chunk_size) ==
    LET chunk_start(r) == r.timestamp - rem(r.timestamp, chunk_size)
        starts == sorted_keys({chunk_start(records[i]) : i \in DOMAIN records})
    IN [i \in DOMAIN starts |->
           [start_time |-> starts[i], end_time |-> starts[i] + chunk_size,
            records |-> SelectSeq(records, LAMBDA r : chunk_start(r) = starts[i])]]

\* QueryEngine::query_time_chunked: the results it may return.
query_time_chunked(chs, resource_type, start_time, end_time, chunk_size_secs) ==
    IF start_time >= end_time THEN {[res |-> "InvalidTimeRange", chunks |-> <<>>]}
    ELSE {IF got.res # "Ok" THEN [res |-> got.res, chunks |-> <<>>]
          ELSE IF chunk_size_secs = 0 /\ got.records # <<>>
          THEN [res |-> "panic", chunks |-> <<>>]
          ELSE [res |-> "Ok", chunks |-> time_chunks(got.records, chunk_size_secs)] :
             got \in engine_query_by_resource_type(chs, resource_type, start_time, end_time)}

\* -------------------------------------------------------------------- spec

Next ==
    \/ \E t \in Threads : InsertWal(t)
    \/ \E t \in Threads : InsertChunk(t)
    \/ \E t \in Threads : PersistFullChunk(t)
    \/ \E t \in Threads : MarkChunkClean(t)
    \/ \E t \in Threads : StoreRecords(t)
    \/ \E t \in Threads : StoreWal(t)
    \/ \E t \in Threads : StoreBatch(t)
    \/ \E t \in Threads : InsertBatch(t)
    \/ \E t \in Threads : FlushSnapshot(t)
    \/ \E t \in Threads : FlushSave(t)
    \/ \E t \in Threads : FlushClean(t)
    \/ \E t \in Threads : FlushTruncate(t)
    \/ Crash
    \/ RecoverLoad
    \/ RecoverReplay

Spec == Init /\ [][Next]_vars

\* The same program where no file operation reports an error.
InitNoFaults ==
    /\ chunks = NoChunks
    /\ disk = NoChunks
    /\ wal = <<>>
    /\ pc = [t \in Threads |-> "idle"]
    /\ loc = [t \in Threads |-> Idle]
    /\ phase = "up"
    /\ todo = <<>>
    /\ restarted = FALSE
    /\ used = 0
    /\ returned = {}
    /\ walFailed = {}
    /\ inflight = {}
    /\ io_faults = {}
    /\ base_path_empty = FALSE
    /\ appended = <<>>
    /\ unloadable = {}
    /\ unsaved = {}
    /\ NewDebug
    /\ broken = NoChunks
    /\ tmp = NoChunks
    /\ fd = [t \in Threads |-> NoFd]

SpecNoFaults == InitNoFaults /\ [][Next]_vars

\* The engine as QueryEngine and main drive it (insert, store_records,
\* flush_all), with crash and recovery and no file errors: insert_batch is
\* only called by store_records.
NextIngest ==
    \/ \E t \in Threads : InsertWal(t)
    \/ \E t \in Threads : InsertChunk(t)
    \/ \E t \in Threads : PersistFullChunk(t)
    \/ \E t \in Threads : MarkChunkClean(t)
    \/ \E t \in Threads : StoreRecords(t)
    \/ \E t \in Threads : StoreWal(t)
    \/ \E t \in Threads : StoreBatch(t)
    \/ \E t \in Threads : FlushSnapshot(t)
    \/ \E t \in Threads : FlushSave(t)
    \/ \E t \in Threads : FlushClean(t)
    \/ \E t \in Threads : FlushTruncate(t)
    \/ Crash
    \/ RecoverLoad
    \/ RecoverReplay

SpecIngest == InitNoFaults /\ [][NextIngest]_vars

\* The write paths alone: threads that insert and store_records, file
\* errors included, with no flush_all and no crash.
NextWriters ==
    \/ \E t \in Threads : InsertWal(t)
    \/ \E t \in Threads : InsertChunk(t)
    \/ \E t \in Threads : PersistFullChunk(t)
    \/ \E t \in Threads : MarkChunkClean(t)
    \/ \E t \in Threads : StoreRecords(t)
    \/ \E t \in Threads : StoreWal(t)
    \/ \E t \in Threads : StoreBatch(t)

SpecWriters == Init /\ [][NextWriters]_vars

\* One caller that inserts and flushes, file errors included; the process
\* crashes and is started again.
NextRecovery ==
    \/ InsertWal(1)
    \/ InsertChunk(1)
    \/ PersistFullChunk(1)
    \/ MarkChunkClean(1)
    \/ FlushSnapshot(1)
    \/ FlushSave(1)
    \/ FlushClean(1)
    \/ FlushTruncate(1)
    \/ Crash
    \/ RecoverLoad
    \/ RecoverReplay

SpecRecovery == Init /\ [][NextRecovery]_vars

\* One caller that inserts and flushes; writes do not fail, chunk files may
\* fail to load at startup; the process crashes and is started again.
InitStartup ==
    /\ chunks = NoChunks
    /\ disk = NoChunks
    /\ wal = <<>>
    /\ pc = [t \in Threads |-> "idle"]
    /\ loc = [t \in Threads |-> Idle]
    /\ phase = "up"
    /\ todo = <<>>
    /\ restarted = FALSE
    /\ used = 0
    /\ returned = {}
    /\ walFailed = {}
    /\ inflight = {}
    /\ io_faults = {"read"}
    /\ base_path_empty = FALSE
    /\ appended = <<>>
    /\ unloadable = {}
    /\ unsaved = {}
    /\ NewDebug
    /\ broken = NoChunks
    /\ tmp = NoChunks
    /\ fd = [t \in Threads |-> NoFd]

SpecStartup == InitStartup /\ [][NextRecovery]_vars

\* Thread 2 inserts while thread 1 calls flush_all; file operations may
\* report errors.
NextFlush ==
    \/ InsertWal(2)
    \/ InsertChunk(2)
    \/ PersistFullChunk(2)
    \/ MarkChunkClean(2)
    \/ FlushSnapshot(1)
    \/ FlushSave(1)
    \/ FlushClean(1)
    \/ FlushTruncate(1)

SpecFlush == Init /\ [][NextFlush]_vars

\* A thread that inserts and a thread that calls flush_all, with truncate_wal
\* taken step by step; no file operation reports an error.
NextTruncate ==
    \/ InsertWal(2)
    \/ InsertChunk(2)
    \/ PersistFullChunk(2)
    \/ MarkChunkClean(2)
    \/ FlushSnapshot(1)
    \/ FlushSave(1)
    \/ FlushClean(1)
    \/ TruncateRename(1)
    \/ TruncateReopen(1)

SpecTruncate == InitNoFaults /\ [][NextTruncate]_vars

\* A thread that inserts and a thread that calls cleanup_old_chunks; file
\* operations may report errors.
NextCleanup ==
    \/ InsertWal(1)
    \/ InsertChunk(1)
    \/ PersistFullChunk(1)
    \/ MarkChunkClean(1)
    \/ CleanupStart(2)
    \/ FlushSave(2)
    \/ FlushClean(2)
    \/ FlushTruncate(2)
    \/ CleanupRetain(2)

SpecCleanup == Init /\ [][NextCleanup]_vars

\* A thread that inserts and a thread that calls cleanup_old_chunks; no file
\* operation reports an error; the process crashes and is started again.
NextRetention ==
    \/ NextCleanup
    \/ Crash
    \/ RecoverLoad
    \/ RecoverReplay

SpecRetention == InitNoFaults /\ [][NextRetention]_vars

\* Threads that insert; no file operation reports an error.
NextInsert ==
    \/ \E t \in Threads : InsertWal(t)
    \/ \E t \in Threads : InsertChunk(t)
    \/ \E t \in Threads : PersistFullChunk(t)
    \/ \E t \in Threads : MarkChunkClean(t)

SpecInsert == InitNoFaults /\ [][NextInsert]_vars

\* Threads that call insert_batch; no file operation reports an error.
NextBatch ==
    \/ \E t \in Threads : InsertBatch(t)
    \/ \E t \in Threads : PersistFullChunk(t)
    \/ \E t \in Threads : MarkChunkClean(t)

SpecBatch == InitNoFaults /\ [][NextBatch]_vars

\* Threads that change the debug settings, one of which also inserts; no
\* file operation reports an error.
NextDebug ==
    \/ \E t \in Threads : DebugWrite(t)
    \/ \E t \in Threads : DebugStore(t)
    \/ InsertWal(2)
    \/ InsertChunk(2)
    \/ PersistFullChunk(2)
    \/ MarkChunkClean(2)

SpecDebug == InitNoFaults /\ [][NextDebug]_vars

\* Threads that insert and compress chunks; no file operation reports an
\* error.
NextChunk ==
    \/ \E t \in Threads : InsertWal(t)
    \/ \E t \in Threads : InsertChunk(t)
    \/ \E t \in Threads : PersistFullChunk(t)
    \/ \E t \in Threads : MarkChunkClean(t)
    \/ \E t \in Threads : CompressChunk(t)

SpecChunk == InitNoFaults /\ [][NextChunk]_vars

\* One caller that inserts, compresses and flushes; no file operation
\* reports an error; the process crashes and is started again: the chunk
\* files are loaded and the WAL is replayed.
NextReload ==
    \/ NextRecovery
    \/ CompressChunk(1)

SpecReload == InitNoFaults /\ [][NextReload]_vars

\* Threads that make calls, followed lock by lock.
NextLocks ==
    \/ \E t \in Threads : LockCall(t)
    \/ \E t \in Threads : LockAcquire(t)
    \/ \E t \in Threads : LockRelease(t)
    \/ \E t \in Threads : LockDo(t)
    \/ \E t \in Threads : LockReturn(t)

SpecLocks == InitNoFaults /\ [][NextLocks]_vars

\* A thread inside a call is scheduled again and again.
LockRun(t) == LockAcquire(t) \/ LockRelease(t) \/ LockDo(t) \/ LockReturn(t)

SpecLocksFair == SpecLocks /\ \A t \in Threads : WF_vars(LockRun(t))

\* Threads that insert and flush, with save_chunk taken file operation by
\* file operation; no file operation reports an error; the process crashes
\* and is started again.
NextSave ==
    \/ \E t \in Threads : InsertWal(t)
    \/ \E t \in Threads : InsertChunk(t)
    \/ \E t \in Threads : SaveCreate(t)
    \/ \E t \in Threads : SaveWrite(t)
    \/ \E t \in Threads : SaveRename(t)
    \/ \E t \in Threads : MarkChunkClean(t)
    \/ \E t \in Threads : FlushSnapshot(t)
    \/ \E t \in Threads : FlushClean(t)
    \/ \E t \in Threads : FlushTruncate(t)
    \/ Crash
    \/ RecoverLoad
    \/ RecoverReplay

SpecSave == InitNoFaults /\ [][NextSave]_vars

\* The write-ahead log alone, driven through PersistenceManager, with base_path
\* empty or not; every call succeeds, and the file may be cut once.
InitWal ==
    /\ chunks = NoChunks
    /\ disk = NoChunks
    /\ wal = <<>>
    /\ pc = [t \in Threads |-> "idle"]
    /\ loc = [t \in Threads |-> Idle]
    /\ phase = "up"
    /\ todo = <<>>
    /\ restarted = FALSE
    /\ used = 0
    /\ returned = {}
    /\ walFailed = {}
    /\ inflight = {}
    /\ io_faults = {}
    /\ base_path_empty \in BOOLEAN
    /\ appended = <<>>
    /\ unloadable = {}
    /\ unsaved = {}
    /\ NewDebug
    /\ broken = NoChunks
    /\ tmp = NoChunks
    /\ fd = [t \in Threads |-> NoFd]

NextWal ==
    \/ AppendRecord
    \/ AppendRecords
    \/ TruncateWal
    \/ CutWal

SpecWal == InitWal /\ [][NextWal]_vars

\* Threads that append to the WAL through PersistenceManager, single records
\* and batches of the fast path; every write succeeds.
NextWalWriters ==
    \/ \E t \in Threads : AppendLength(t)
    \/ \E t \in Threads : AppendPayload(t)
    \/ \E t \in Threads : AppendBatch(t)

SpecWalWriters == InitNoFaults /\ [][NextWalWriters]_vars

\* ------------------------------------------------------------------ claims

\* The records in the chunk map.
StoredRecords == UNION {ChunkRecords(chunks[id]) : id \in DOMAIN chunks}

\* The records of the complete frames of the WAL file.
WalRecords ==
    UNION {SeqToSet(from_slice(wal[i].payload).record) :
              i \in {j \in 1 .. Len(wal) : wal[j].torn = "none"}}

\* The records of the calls of `ops` that returned Ok.
Succeeded(ops) == {e.rec : e \in {x \in returned : x.op \in ops /\ x.res = "Ok"}}

\* The records handed to the engine so far.
Handed == {e.rec : e \in returned} \cup UNION {SeqToSet(loc[t].recs) : t \in Threads}

\* No call has returned an error so far.
AllOk == \A e \in returned : e.res = "Ok"

\* Bounds of the queries the claims ask.
QueryTimes == (0 - 2) .. (MaxTs + 2)

\* C1 (Durability): once the process has crashed and was started again, the
\* records in the chunk map are exactly the records whose insert or
\* store_records call returned Ok; a record whose call the crash interrupted
\* (the torn tail of the WAL among them) may be there or not.  A restart that
\* fails recovers nothing.
C1_Durability ==
    phase \in {"recovered", "failed"} =>
        LET acked == Succeeded({"insert", "store_records"})
            recovered == IF phase = "failed" THEN {} ELSE StoredRecords
        IN acked \subseteq recovered /\ recovered \subseteq acked \cup inflight

\* C2 (Read-your-writes): in one process where no call has returned an
\* error, after insert(r) returned Ok, every get_latest(r.metric_name)
\* returns a record with timestamp >= r.timestamp.
C2_ReadYourWrites ==
    (~restarted /\ AllOk) =>
        \A r \in Succeeded({"insert"}) :
            \A o \in get_latest(chunks, r.metric_name) :
                /\ o.res = "Ok"
                /\ o.latest # <<>>
                /\ o.latest[1].timestamp >= r.timestamp

\* C3 (Range completeness): with no call running and none having returned
\* an error, query_range(start, end, m) for start < end returns Ok with
\* exactly the successfully inserted records of metric m with
\* start <= timestamp < end.
C3_RangeCompleteness ==
    (~restarted /\ AllOk /\ \A t \in Threads : pc[t] = "idle") =>
        \A start \in QueryTimes, end \in QueryTimes, m \in Metrics :
            start < end =>
                LET q == query_range(chunks, start, end, m)
                IN /\ q.res = "Ok"
                   /\ SeqToSet(q.records) =
                        {r \in Succeeded({"insert", "store_records", "insert_batch"}) :
                            r.metric_name = m /\ start <= r.timestamp /\ r.timestamp < end}

\* C4: whenever get_latest(metric) returns Ok, it returns the record with
\* the greatest timestamp among all records of the metric in all chunks
\* (none exactly when there is no such record).
C4_LatestIsMaximum ==
    \A m \in Metrics :
        \A o \in get_latest(chunks, m) :
            o.res = "Ok" =>
                LET all == {r \in StoredRecords : r.metric_name = m}
                IN IF all = {} THEN o.latest = <<>>
                   ELSE /\ o.latest # <<>>
                        /\ \A r \in all : o.latest[1].timestamp >= r.timestamp

\* C5: get_latest(metric) never returns an error, whatever chunks hold the
\* metric (in runs where no call has returned an error, so that every chunk
\* of the map holds a record).
C5_LatestNeverErrs ==
    AllOk => \A m \in Metrics : \A o \in get_latest(chunks, m) : o.res = "Ok"

\* C6 (Alignment): every chunk file has an id that is a multiple of
\* chunk_duration, and every record in it lies in [id, id + chunk_duration).
C6_FilesAligned ==
    \A id \in DOMAIN disk :
        /\ rem(id, chunk_duration) = 0
        /\ \A r \in ChunkRecords(disk[id]) :
              id <= r.timestamp /\ r.timestamp < id + chunk_duration

\* C7: for every timestamp handed to the engine and every positive duration,
\* get_chunk_id and chunk_id_for_timestamp give floor(ts / d) * d.
C7_ChunkIdIsFloor ==
    \A r \in Handed :
        /\ get_chunk_id(r.timestamp) = (r.timestamp \div chunk_duration) * chunk_duration
        /\ \A d \in 1 .. chunk_duration :
              chunk_id_for_timestamp(r.timestamp, d) = (r.timestamp \div d) * d

\* C8 (Disjointness): the windows of any two chunks of the map do not
\* overlap, every key is its chunk's start_time, and every start_time is a
\* multiple of chunk_duration.
C8_ChunksDisjoint ==
    /\ \A id \in DOMAIN chunks :
          chunks[id].start_time = id /\ rem(chunks[id].start_time, chunk_duration) = 0
    /\ \A i \in DOMAIN chunks, j \in DOMAIN chunks :
          i # j => (chunks[i].end_time <= chunks[j].start_time
                    \/ chunks[j].end_time <= chunks[i].start_time)

C10_NoPartialCommit ==
    ~restarted =>
        /\ \A e \in returned :
              (e.op = "insert" /\ e.res # "Ok") =>
                  /\ e.rec \notin WalRecords
                  /\ e.rec \notin StoredRecords
                  /\ e.res # "ChunkError"
        /\ \A id \in DOMAIN chunks : ChunkRecords(chunks[id]) # {}

\* C11 (WAL round trip): after any sequence of successful append_record and
\* append_records calls since the last truncate, replay returns Ok with
\* exactly the appended records, in append order.
C11_WalRoundTrip ==
    phase = "up" => replay(wal) = [res |-> "Ok", records |-> appended]

\* C12 (torn tail): for a WAL file cut at any byte offset, whose whole frames
\* hold decodable payloads, replay returns Ok with exactly the records of the
\* whole frames that precede the cut.
C12_TornTailDiscarded ==
    LET whole == {i \in 1 .. Len(wal) : wal[i].torn = "none"}
    IN (phase = "down" /\ \A i \in whole : from_slice(wal[i].payload).res = "Ok") =>
          replay(wal) = [res |-> "Ok",
                         records |-> [i \in 1 .. Cardinality(whole) |->
                                         from_slice(wal[i].payload).record[1]]]

C14_BadWalRecordSkipped ==
    /\ phase # "failed"
    /\ phase = "recovered" =>
          \A r \in WalRecords : r.timestamp >= 0 => r \in StoredRecords

\* C15: whenever the process stops, at any step of any save_chunk (in runs
\* where no call has returned an error), every .chunk file holds the whole
\* JSON of a chunk (or is absent); and a .tmp file is neither listed by
\* list_chunks nor among the files startup tried to load.
C15_ChunkFileAtomic ==
    /\ (phase = "down" /\ AllOk) => broken = NoChunks
    /\ list_chunks = DOMAIN disk \cup DOMAIN broken
    /\ unloadable \subseteq DOMAIN disk \cup DOMAIN broken

\* No writer (insert, store_records, insert_batch) has run since thread t's
\* flush_all took its snapshot: none was running then and no record has been
\* handed in since.
NoWriterSince(t) == loc[t].quiet /\ loc[t].since = used

\* C16: when flush_all returns Ok and no writer ran concurrently, every chunk
\* of the map is clean, every chunk that was dirty has a chunk file whose
\* records equal its in-memory records, and the WAL file is empty.
C16_FlushPostcondition ==
    [][\A t \in Threads :
          (pc[t] = "fl_trunc" /\ pc'[t] = "idle" /\ phase' # "down" /\ wal' = <<>>
              /\ NoWriterSince(t)) =>
              /\ \A id \in DOMAIN chunks' : ~chunks'[id].dirty
              /\ \A id \in DOMAIN loc[t].snaps :
                    /\ id \in DOMAIN disk'
                    /\ id \in DOMAIN chunks'
                    /\ disk'[id].records = chunks'[id].records]_vars

C18_CleanChunkMatchesFile ==
    \A id \in DOMAIN chunks :
        ~chunks[id].dirty => id \in DOMAIN disk /\ disk[id].records = chunks[id].records

\* C19: query_range(start, end, m) with start < end returns Ok whatever the
\* chunks of the range hold: a chunk without metric m contributes nothing.
C19_AbsentMetricIsEmpty ==
    \A start \in QueryTimes, end \in QueryTimes, m \in Metrics :
        start < end => query_range(chunks, start, end, m).res = "Ok"

\* The prefixes of a metric name, the empty one and the name itself included.
PrefixesOf(m) == {SubSeq(chars[m], 1, k) : k \in 0 .. Len(chars[m])}

\* C20 (prefix monotonicity): if metric m is a key of some chunk of the map,
\* then for every prefix p of m every list get_matching_metrics(p) may return
\* holds m exactly once, and every name in it starts with p.
C20_PrefixMonotonicity ==
    \A m \in Metrics :
        (\E id \in DOMAIN chunks : m \in keys(chunks[id])) =>
            \A p \in PrefixesOf(m) :
                \A out \in get_matching_metrics(chunks, p) :
                    /\ Cardinality({i \in DOMAIN out : out[i] = m}) = 1
                    /\ \A i \in DOMAIN out : starts_with(out[i], p)

\* Metric "ab" is a key of two chunks, and the lookup of its prefix "a"
\* returns it once.
C20_Witness ==
    /\ Cardinality({id \in DOMAIN chunks : "ab" \in keys(chunks[id])}) = 2
    /\ get_matching_metrics(chunks, <<"a">>) = {<<"ab">>}

\* C21 (secondary index): for every chunk and every record in its primary
\* index, the chunk's resource_type -> metric names index lists the record's
\* metric under the record's resource type, and so
\* get_metrics_by_resource_type(rt) returns every metric that has a record of
\* resource type rt.
C21_SecondaryIndex ==
    /\ \A id \in DOMAIN chunks :
          \A r \in ChunkRecords(chunks[id]) :
             /\ r.resource_type \in DOMAIN chunks[id].resource_metrics
             /\ contains(chunks[id].resource_metrics[r.resource_type], r.metric_name)
    /\ \A rt \in ResourceTypes :
          \A out \in get_metrics_by_resource_type(chunks, rt) :
             \A r \in StoredRecords : r.resource_type = rt => contains(out, r.metric_name)

\* C22: cleanup_old_chunks removes chunks only after its flush_all succeeded,
\* and then exactly the chunks whose start_time is below the cutoff, leaving
\* the others as they are; every record of a removed chunk is in the chunk's
\* file; when flush_all fails no chunk is removed.
C22_CleanupAfterFlush ==
    [][\A t \in Threads :
          (loc[t].op = "cleanup_old_chunks" /\ pc'[t] = "idle") =>
              IF pc[t] = "retain"
              THEN /\ DOMAIN chunks' =
                        {id \in DOMAIN chunks : chunks[id].start_time >= loc[t].cutoff}
                   /\ \A id \in DOMAIN chunks' : chunks'[id] = chunks[id]
                   /\ \A id \in DOMAIN chunks \ DOMAIN chunks' :
                         \A r \in ChunkRecords(chunks[id]) :
                            id \in DOMAIN disk /\ r \in ChunkRecords(disk[id])
              ELSE chunks' = chunks]_vars

\* C23 (aggregate count): for every start < end and metric,
\* QueryEngine::query_range with aggregation Count and no interval returns a
\* single record whose value is the number of records the underlying range
\* query returns, the empty range included.
C23_AggregateCount ==
    \A start \in QueryTimes, end \in QueryTimes, m \in Metrics :
        start < end =>
            \A out \in engine_query_range(chunks, start, end, m, "Count", <<>>) :
                /\ out.res = "Ok"
                /\ Len(out.records) = 1
                /\ out.records[1].value = Len(query_range(chunks, start, end, m).records)

\* C23 as amended: when the underlying range query returns at least one
\* record, the Count query returns a single record whose value is their
\* number; when it returns none, the Count query returns no record; when it
\* fails, the error is passed on as a StorageError.
C23_AggregateCountNonEmpty ==
    \A start \in QueryTimes, end \in QueryTimes, m \in Metrics :
        start < end =>
            LET underlying == query_range(chunks, start, end, m)
            IN \A out \in engine_query_range(chunks, start, end, m, "Count", <<>>) :
                  IF underlying.res # "Ok" THEN out.res = "StorageError"
                  ELSE /\ out.res = "Ok"
                       /\ IF underlying.records = <<>> THEN out.records = <<>>
                          ELSE /\ Len(out.records) = 1
                               /\ out.records[1].value = Len(underlying.records)

\* Two records of one metric are stored, and the Count query over the whole
\* time line returns one record with value 2.
C23_Witness ==
    \E m \in Metrics :
        /\ Len(query_range(chunks, 0, MaxTs + 1, m).records) = 2
        /\ \A out \in engine_query_range(chunks, 0, MaxTs + 1, m, "Count", <<>>) :
              out.res = "Ok" /\ Len(out.records) = 1 /\ out.records[1].value = 2

\* C24 (set_debug_settings): whenever no set_debug_settings call is between
\* its write and its store, under every interleaving of the calls,
\* persistence_enabled is the negation of the stored memory_mode; and no step
\* of a call whose batch_size is None changes the stored batch size.
C24_PersistenceFollowsMemoryMode ==
    /\ []((\A t \in Threads : pc[t] # "dbg_store") =>
              persistence_enabled = ~debug_mode.memory_mode)
    /\ [][\A t \in Threads :
             LET l == IF pc'[t] = "dbg_store" THEN loc'[t] ELSE loc[t]
             IN (pc'[t] # pc[t] /\ l.op = "set_debug_settings" /\ l.args[3] = <<>>) =>
                    debug_mode'.batch_size = debug_mode.batch_size]_vars

\* A call with memory_mode true and batch_size None has returned, a record
\* was inserted after it, and the stored batch size is the initial one.
C24_Witness ==
    /\ \A t \in Threads : pc[t] = "idle"
    /\ debug_mode.memory_mode /\ ~persistence_enabled
    /\ debug_mode.batch_size = DefaultBatchSize
    /\ chunks # NoChunks

\* C30 (disable_wal): an insert that starts while the stored debug settings
\* are disable_wal = true and memory_mode = false appends no frame to the WAL
\* and goes on to add its record to the chunk.
C30_DisableWalSkipsWal ==
    [][\A t \in Threads :
          (/\ pc[t] = "idle" /\ loc'[t].op = "insert"
           /\ debug_lock = 0 /\ debug_mode.disable_wal /\ ~debug_mode.memory_mode) =>
              (wal' = wal /\ pc'[t] = "ins_chunk")]_vars

\* C25 (clone under the lock, flush outside it, mark inside it): in every
\* call, the chunk snapshot is cloned while the thread holds the chunks lock,
\* the thread holds no chunks lock when it is about to run save_chunk,
\* mark_chunk_durable or truncate_wal, and it holds the write lock when it
\* is about to call mark_clean.
C25_FlushOutsideLock ==
    \A t \in Threads :
        at_step(t, "do") =>
            /\ next_step(t).name = "clone" => held[t] \cap ChunksLock # {}
            /\ next_step(t).name \in {"save_chunk", "mark_chunk_durable", "truncate_wal",
                                      "replace log_file"} =>
                   held[t] \cap ChunksLock = {}
            /\ next_step(t).name = "mark_clean" => "chunks.write" \in held[t]

\* A thread is about to save a chunk while another holds the write lock on
\* the chunk map.
C25_Witness ==
    \E t \in Threads, u \in Threads :
        /\ at_step(t, "do") /\ next_step(t).name = "save_chunk"
        /\ loc[t].op \in {"insert", "insert_batch", "flush_all"}
        /\ "chunks.write" \in held[u]

\* C26 (deadlock freedom): a thread that is about to acquire a lock holds no
\* lock, and under fair scheduling every call returns.
C26_DeadlockFree ==
    /\ [](\A t \in Threads : at_step(t, "acquire") => holds(t) = {})
    /\ \A t \in Threads : (pc[t] = "locks") ~> (pc[t] = "idle")

\* A thread waits for a lock that another thread holds.
C26_Witness ==
    \E t \in Threads, u \in Threads :
        /\ at_step(t, "acquire") /\ ~can_lock(t, next_step(t).name)
        /\ holds(u) # {}

\* The place of record r in the sequence of its metric in its chunk, or 0.
chunk_position(r) ==
    LET id == get_chunk_id(r.timestamp)
    IN IF id \in DOMAIN chunks /\ \E k \in 1 .. Len(chunks[id].records[r.metric_name]) :
                                     chunks[id].records[r.metric_name][k] = r
       THEN CHOOSE k \in 1 .. Len(chunks[id].records[r.metric_name]) :
               chunks[id].records[r.metric_name][k] = r
       ELSE 0

\* C27 (WAL order is visibility order): for two records of the same metric,
\* r1 in the window of its chunk (append accepts it), if the frame of r1
\* precedes the frame of r2 in the WAL and r2 is in the chunk map (a read can
\* observe it), then r1 is in the chunk map too, and before r2 when both are
\* in the same chunk.
C27_WalOrderIsChunkOrder ==
    \A i \in 1 .. Len(wal), j \in 1 .. Len(wal) :
        LET r1 == from_slice(wal[i].payload).record[1]
            r2 == from_slice(wal[j].payload).record[1]
        IN (/\ i < j
            /\ r1.metric_name = r2.metric_name
            /\ get_chunk_id(r1.timestamp) <= r1.timestamp
            /\ chunk_position(r2) > 0) =>
               /\ chunk_position(r1) > 0
               /\ get_chunk_id(r1.timestamp) = get_chunk_id(r2.timestamp) =>
                      chunk_position(r1) < chunk_position(r2)

\* C28 (window invariant): every record stored in a chunk has its timestamp
\* in the chunk's window, start_time <= timestamp < end_time; and an insert
\* whose record is outside the window of its chunk returns append's
\* OutOfTimeRange (a StorageError::ChunkError) and leaves the chunk as it was
\* (as TimeChunk::new made it, if the insert created it).
C28_WindowInvariant ==
    /\ [](\A id \in DOMAIN chunks : \A r \in ChunkRecords(chunks[id]) :
             chunks[id].start_time <= r.timestamp /\ r.timestamp < chunks[id].end_time)
    /\ [][\A t \in Threads :
             (pc[t] = "ins_chunk" /\ pc'[t] # "ins_chunk") =>
                 LET r == loc[t].recs[1]
                     id == get_chunk_id(r.timestamp)
                     before == IF id \in DOMAIN chunks THEN chunks[id]
                               ELSE TimeChunkNew(id, id + chunk_duration)
                 IN ~can_accept(before, r.timestamp) =>
                        /\ chunks'[id] = before
                        /\ [op |-> "insert", rec |-> r, res |-> "ChunkError"] \in returned']_vars

\* The number of records in the per-metric sequences of a chunk.
RECURSIVE records_len_of(_, _)
records_len_of(chunk, metrics) ==
    IF metrics = {} THEN 0
    ELSE LET m == CHOOSE x \in metrics : TRUE
         IN Len(chunk.records[m]) + records_len_of(chunk, metrics \ {m})

records_len(chunk) == records_len_of(chunk, Metrics)

\* C29 (record_count): for every chunk of the map and every chunk file,
\* record_count is the sum of the lengths of the per-metric sequences; and an
\* insert whose record the chunk rejects leaves record_count as it was.
C29_RecordCount ==
    /\ [](/\ \A id \in DOMAIN chunks : chunks[id].record_count = records_len(chunks[id])
          /\ \A id \in DOMAIN disk : disk[id].record_count = records_len(disk[id]))
    /\ [][\A t \in Threads :
             (pc[t] = "ins_chunk" /\ pc'[t] # "ins_chunk" /\ phase' # "down") =>
                 LET r == loc[t].recs[1]
                     id == get_chunk_id(r.timestamp)
                     before == IF id \in DOMAIN chunks THEN chunks[id]
                               ELSE TimeChunkNew(id, id + chunk_duration)
                 IN ~can_accept(before, r.timestamp) =>
                        chunks'[id].record_count = before.record_count]_vars

\* Right after a restart, a chunk that was loaded compressed from its file
\* holds two records, one of them from the replay of the WAL.
C29_Witness ==
    /\ restarted /\ phase = "recovered"
    /\ \E id \in DOMAIN chunks \cap DOMAIN disk :
          /\ chunks[id].compression_state = "Compressed"
          /\ chunks[id].record_count = 2
          /\ WalRecords \cap ChunkRecords(chunks[id]) # {}

\* The chunks the replay of the WAL hands a record to.
replayed_chunks == {get_chunk_id(r.timestamp) : r \in SeqToSet(replay(wal).records)}

\* C31 (recovery does not write to the WAL): no step of the startup changes
\* the WAL file, and when the startup is over every chunk that was loaded
\* from its file and got no replayed record is in the map with dirty = false.
C31_RecoveryKeepsWal ==
    /\ [][(phase \in {"down", "recovering"}) => (wal' = wal)]_vars
    /\ [](phase = "recovered" =>
             \A id \in (list_chunks \ unloadable) \ replayed_chunks :
                 id \in DOMAIN chunks /\ ~chunks[id].dirty)

\* The startup is over: one chunk came from its file alone and another got a
\* record from the replay of the WAL.
C31_Witness ==
    /\ phase = "recovered"
    /\ (list_chunks \ unloadable) \ replayed_chunks # {}
    /\ \E id \in replayed_chunks : id \in DOMAIN chunks /\ chunks[id].record_count > 0

\* The interval lengths of the aggregating queries.
Intervals == 1 .. (chunk_duration + 1)

\* align(ts, interval): floor(ts / interval) * interval
align(ts, interval) == (ts \div interval) * interval

\* The aggregation of a bucket's values.
aggregation_of(bucket, aggregation) ==
    LET values == {bucket[i].value : i \in DOMAIN bucket}
    IN CASE aggregation = "Count" -> Len(bucket)
         [] aggregation = "Sum" -> sum_values(bucket)
         [] aggregation = "Mean" -> <<sum_values(bucket), Len(bucket)>>
         [] aggregation = "Max" -> CHOOSE v \in values : \A w \in values : w <= v
         [] aggregation = "Min" -> CHOOSE v \in values : \A w \in values : v <= w

\* C32 (interval aggregation): for every start < end, metric, aggregation
\* and positive interval for which the underlying range query succeeds,
\* QueryEngine::query_range returns one aggregate for each non-empty bucket
\* align(ts, interval) of the underlying records and nothing else; the
\* aggregate is the first record of its bucket with the aggregation of the
\* bucket's values as its value.
C32_IntervalAggregation ==
    \A start \in QueryTimes, end \in QueryTimes, m \in Metrics,
       aggregation \in Aggregations, interval \in Intervals :
        LET underlying == query_range(chunks, start, end, m)
            recs == underlying.records
            buckets == {align(recs[i].timestamp, interval) : i \in DOMAIN recs}
            bucket(k) == SelectSeq(recs, LAMBDA r : align(r.timestamp, interval) = k)
        IN (start < end /\ underlying.res = "Ok") =>
              \A out \in engine_query_range(chunks, start, end, m, aggregation, <<interval>>) :
                 /\ out.res = "Ok"
                 /\ Len(out.records) = Cardinality(buckets)
                 /\ \A k \in buckets :
                       \E i \in DOMAIN out.records :
                          out.records[i] =
                             [bucket(k)[1] EXCEPT !.value = aggregation_of(bucket(k), aggregation)]

\* The number of times record r occurs in the list.
occurrences(records, r) == Cardinality({i \in DOMAIN records : records[i] = r})

\* C33 (query_time_chunked): for every resource type, start < end and
\* positive size, every successful query_time_chunked returns the grouping of
\* a result of query_by_resource_type: the groups are in strictly increasing
\* order of chunk_start, chunk_end = chunk_start + size, every returned record
\* is in exactly one group, and every record of a group has
\* chunk_start <= timestamp < chunk_end.
C33_TimeChunked ==
    \A rt \in ResourceTypes, start \in QueryTimes, end \in QueryTimes, size \in Intervals :
        \A out \in query_time_chunked(chunks, rt, start, end, size) :
           out.res = "Ok" =>
              /\ \E got \in engine_query_by_resource_type(chunks, rt, start, end) :
                    /\ got.res = "Ok"
                    /\ \A r \in SeqToSet(got.records) \cup SeqToSet(flatten(out.chunks)) :
                          occurrences(flatten(out.chunks), r) = occurrences(got.records, r)
              /\ \A i \in DOMAIN out.chunks :
                    /\ out.chunks[i].end_time = out.chunks[i].start_time + size
                    /\ \A j \in DOMAIN out.chunks :
                          i < j => out.chunks[i].start_time < out.chunks[j].start_time
                    /\ \A r \in SeqToSet(out.chunks[i].records) :
                          /\ out.chunks[i].start_time <= r.timestamp
                          /\ r.timestamp < out.chunks[i].end_time

\* C34 (insert_batch is all-or-nothing): no record of an insert_batch call
\* that returned an error is in a chunk of the map, and the step in which
\* insert_batch fails adds no chunk to the map.
C34_BatchAllOrNothing ==
    /\ [](\A e \in returned :
             (e.op = "insert_batch" /\ e.res # "Ok") =>
                \A id \in DOMAIN chunks : e.rec \notin ChunkRecords(chunks[id]))
    /\ [][(\E e \in returned' \ returned : e.op = "insert_batch" /\ e.res # "Ok")
             => (DOMAIN chunks' = DOMAIN chunks)]_vars

\* C35 (no duplication on recovery): when the startup after a crash is
\* over, every record whose insert returned Ok occurs exactly once in the
\* result of a successful query_range over the whole time line for its
\* metric.
C35_NoDuplicates ==
    (restarted /\ phase = "recovered") =>
        \A r \in Succeeded({"insert"}) :
            LET got == query_range(chunks, 0 - 2, MaxTs + 2, r.metric_name)
            IN got.res = "Ok" => occurrences(got.records, r) = 1

\* C36 (no stale overwrite of a chunk file): while threads save snapshots of
\* one chunk concurrently in one process, no step takes a record out of a
\* chunk file or removes the file, no chunk file holds a mixed or partial
\* serialization, and no save fails.
C36_NoStaleOverwrite ==
    /\ [](~restarted =>
             /\ broken = NoChunks
             /\ \A e \in returned : e.res # "PersistenceError")
    /\ [][~restarted' =>
             \A id \in DOMAIN disk :
                /\ id \in DOMAIN disk'
                /\ ChunkRecords(disk[id]) \subseteq ChunkRecords(disk'[id])]_vars

\* The records in the chunk files.
SavedRecords == UNION {ChunkRecords(disk[id]) : id \in DOMAIN disk}

\* C37 (append during truncate_wal): a WAL append of insert that returns
\* success while another thread is inside truncate_wal writes through a
\* handle that refers to records.wal, and leaves its record readable by
\* replay() from records.wal or in a chunk file.
C37_AppendSurvivesTruncate ==
    [][\A t \in Threads :
          (/\ pc[t] = "idle" /\ pc'[t] = "ins_chunk" /\ persistence_enabled
           /\ \E u \in Threads : pc[u] = "fl_reopen") =>
              /\ log_file = "records.wal"
              /\ loc'[t].recs[1] \in SeqToSet(replay(wal').records) \cup SavedRecords']_vars

\* C38 (WAL frames are never interleaved): at every moment records.wal is a
\* sequence of whole frames followed by at most one frame still being
\* written: no length without its payload before other bytes, and no
\* payload without its length.
C38_FramesWhole ==
    \A i \in 1 .. Len(wal) :
        wal[i].torn # "none" => (i = Len(wal) /\ wal[i].torn # "data")

\* C39 (query_by_resource_type): for every resource type and start < end,
\* a successful query_by_resource_type returns every stored record of that
\* resource type with start <= timestamp < end exactly once, and no record
\* of another resource type or outside the range.
C39_ResourceTypeQuery ==
    \A rt \in ResourceTypes, start \in QueryTimes, end \in QueryTimes :
        start < end =>
            \A out \in query_by_resource_type(chunks, rt, start, end) :
               out.res = "Ok" =>
                  /\ \A r \in StoredRecords :
                        (r.resource_type = rt /\ start <= r.timestamp /\ r.timestamp < end)
                            => occurrences(out.records, r) = 1
                  /\ \A r \in SeqToSet(out.records) :
                        r.resource_type = rt /\ start <= r.timestamp /\ r.timestamp < end

\* C40 (retention survives a restart): when the startup after a crash is
\* over, a chunk that cleanup_old_chunks removed while no other call was
\* running, with no write since, is not in the chunk map, and the map holds
\* no record of its window.
C40_RetentionSurvivesRestart ==
    (restarted /\ phase = "recovered") =>
        \A e \in removed :
            (e.quiet /\ e.used = used) =>
                /\ e.id \notin DOMAIN chunks
                /\ \A r \in StoredRecords :
                      ~(e.id <= r.timestamp /\ r.timestamp < e.id + chunk_duration)

====
